---- MODULE Spec2Model ----
(***************************************************************************)
(* Model of the slide deck generator (generate-slide-decks.js).            *)
(*                                                                         *)
(* Text is a sequence of atoms.  An atom is a piece of a JavaScript string *)
(* that the program never looks inside: the brace pairs "{{" and "}}", a   *)
(* placeholder name, a word, a rendered number.  A placeholder {{NAME}} is *)
(* the three atoms "{{", NAME, "}}", so that text put together by          *)
(* concatenation or by substitution can form a placeholder, as it can in   *)
(* the program.  The empty string is the empty sequence.                   *)
(*                                                                         *)
(* A number is kept in fixed point with two fractional digits: the integer *)
(* n stands for n / 100, so 475 is 4.75 and 400000 is 4000.                *)
(***************************************************************************)
EXTENDS Integers, Sequences, FiniteSets, TLC

VARIABLES
    op,          \* the operation that produced the current state
    template,    \* first argument of interpolateVariables (any JS value)
    stateVars,   \* the State Variable Set: entries [k, v] in key order
    contentData, \* third argument of interpolateVariables
    result,      \* value returned by interpolateVariables
    again,       \* value returned when the result is interpolated once more
    baseAmount,  \* baseAmount argument of a calculated field (whole dollars)
    halfUp,      \* side on which the double nearest a half cent lies
    calc,        \* the four rendered calculated fields
    fs,          \* the files generateSlideDeck reads
    state,       \* options.state
    lChapter,    \* options.chapter
    pc,          \* the step generateSlideDeck takes next
    loads,       \* the loads attempted so far, in order
    mappingContent, \* text of the chapter mapping file
    mapping,     \* what parseChapterMapping returned
    warnings,    \* number of console.warn calls
    written,     \* the files written: [dir, name, html]
    exitCode,    \* process exit status, -1 while running
    slide,       \* argument of generateSlideHTML
    html,        \* text returned by generateLayoutContent
    slideHTML,   \* text returned by generateSlideHTML
    file,        \* the file at filePath, read by validateContentJSON
    errors,      \* the errors validateContentJSON printed
    warned,      \* the warnings validateContentJSON printed
    isValid,     \* what validateContentJSON returned
    dom,         \* the parsed legacy deck: the node of its document element
    jsonOutput,  \* the content document convertHtmlToJson returned
    fragments,   \* the slide fragments rendered from the converted document
    args,        \* process.argv.slice(2) of the converter
    sourceDir,   \* the files of CONFIG.sourceDir
    outputDir,   \* the files of CONFIG.outputDir
    htmlFiles,   \* the sorted list processAllFiles walks
    counts,      \* the counters processed, skipped and errors
    walked       \* what the loop did with each file walked so far

\* the variables of one call of a function
callVars == <<op, result, again, baseAmount, halfUp, calc>>

\* the variables of a run of generateSlideDeck
runVars == <<fs, state, lChapter, pc, loads, mappingContent, mapping,
             warnings, written, exitCode>>

\* the variables of a call of generateLayoutContent and generateSlideHTML
renderVars == <<slide, html, slideHTML>>

\* the variables of a call of validateContentJSON
validateVars == <<file, errors, warned, isValid>>

convertVars == <<dom, jsonOutput, fragments>>

\* the variables of a run of processAllFiles
batchVars == <<args, sourceDir, outputDir, htmlFiles, counts, walked>>

vars == <<op, template, stateVars, contentData, result, again,
          baseAmount, halfUp, calc, fs, state, lChapter, pc, loads,
          mappingContent, mapping, warnings, written, exitCode,
          slide, html, slideHTML,
          file, errors, warned, isValid,
          dom, jsonOutput, fragments,
          args, sourceDir, outputDir, htmlFiles, counts, walked>>

----------------------------------------------------------------------------
(* JavaScript values *)

Str(s) == [t |-> "string", n |-> 0, b |-> FALSE, s |-> s]

Num(n) == [t |-> "number", n |-> n, b |-> FALSE, s |-> <<>>]

Bool(b) == [t |-> "boolean", n |-> 0, b |-> b, s |-> <<>>]

Null == [t |-> "null", n |-> 0, b |-> FALSE, s |-> <<>>]

Undefined == [t |-> "undefined", n |-> 0, b |-> FALSE, s |-> <<>>]

Obj == [t |-> "object", n |-> 0, b |-> FALSE, s |-> <<>>]

\* ToBoolean: what `!x` and `x || y` test
Truthy(x) ==
    CASE x.t = "string" -> x.s # <<>>
      [] x.t = "number" -> x.n # 0
      [] x.t = "boolean" -> x.b
      [] x.t = "object" -> TRUE
      [] OTHER -> FALSE

\* x || y
OrElse(x, y) == IF Truthy(x) THEN x ELSE y

\* Number.prototype.toString on a fixed-point number: 475 -> "4.75",
\* 450 -> "4.5", 400 -> "4", -25 -> "-0.25"
NumToString(n) ==
    LET a == IF n < 0 THEN -n ELSE n
        whole == a \div 100
        frac == a % 100
        sign == IF n < 0 THEN "-" ELSE ""
    IN  IF frac = 0 THEN sign \o ToString(whole)
        ELSE IF frac % 10 = 0
             THEN sign \o ToString(whole) \o "." \o ToString(frac \div 10)
             ELSE IF frac < 10
                  THEN sign \o ToString(whole) \o ".0" \o ToString(frac)
                  ELSE sign \o ToString(whole) \o "." \o ToString(frac)

\* ToString: the text a value becomes where a string is required
JsToString(x) ==
    CASE x.t = "string" -> x.s
      [] x.t = "number" -> <<NumToString(x.n)>>
      [] x.t = "boolean" -> IF x.b THEN <<"true">> ELSE <<"false">>
      [] x.t = "object" -> <<"[object Object]">>
      [] OTHER -> <<x.t>>

----------------------------------------------------------------------------
(* String primitives *)

\* `{{${key}}}`
Placeholder(key) == <<"{{", key, "}}">>

\* s.split(p).join(v) for a non-empty p: every occurrence of p, found from
\* the left without overlap, is replaced by v; v is not scanned again
RECURSIVE SplitJoin(_, _, _)
SplitJoin(s, p, v) ==
    IF Len(s) < Len(p) THEN s
    ELSE IF SubSeq(s, 1, Len(p)) = p
         THEN v \o SplitJoin(SubSeq(s, Len(p) + 1, Len(s)), p, v)
         ELSE <<Head(s)>> \o SplitJoin(Tail(s), p, v)

\* s.indexOf(p), 1-based; 0 when p does not occur
RECURSIVE IndexFrom(_, _, _)
IndexFrom(s, p, i) ==
    IF i + Len(p) - 1 > Len(s) THEN 0
    ELSE IF SubSeq(s, i, i + Len(p) - 1) = p THEN i
         ELSE IndexFrom(s, p, i + 1)

IndexOf(s, p) == IndexFrom(s, p, 1)

\* GetSubstitution: the replacement patterns String.prototype.replace
\* expands in a replacement string
RECURSIVE GetSubstitution(_, _, _, _)
GetSubstitution(r, matched, before, after) ==
    IF r = <<>> THEN <<>>
    ELSE LET rest == GetSubstitution(Tail(r), matched, before, after)
         IN  CASE Head(r) = "$$" -> <<"$">> \o rest
               [] Head(r) = "$&" -> matched \o rest
               [] Head(r) = "$`" -> before \o rest
               [] Head(r) = "$'" -> after \o rest
               [] OTHER -> <<Head(r)>> \o rest

\* StringReplace without the test for "not found": the slices are taken
\* at index -1
StringReplace_NoNotFoundTest(s, p, r) ==
    LET i == IndexOf(s, p)
        before == IF i = 0 THEN SubSeq(s, 1, Len(s) - 1) ELSE SubSeq(s, 1, i - 1)
        after == IF i = 0 THEN SubSeq(s, Len(p), Len(s))
                 ELSE SubSeq(s, i + Len(p), Len(s))
    IN  before \o GetSubstitution(r, p, before, after) \o after

\* s.replace(p, r) with a string pattern p: the first occurrence only
StringReplace(s, p, r) ==
    LET i == IndexOf(s, p)
    IN  IF i = 0 THEN s
        ELSE LET before == SubSeq(s, 1, i - 1)
                 after == SubSeq(s, i + Len(p), Len(s))
             IN  before \o GetSubstitution(r, p, before, after) \o after

----------------------------------------------------------------------------
(* CALCULATED_FIELDS *)

\* vars.KEY: the value of the entry with that key, undefined when absent
Lookup(vs, key) ==
    IF \E i \in 1..Len(vs) : vs[i].k = key
    THEN vs[CHOOSE i \in 1..Len(vs) : vs[i].k = key].v
    ELSE Undefined

\* The decimal literals parseFloat is given as strings in this model
NumericLiterals == {0, 1, 110, 475}

NaN == [nan |-> TRUE, n |-> 0]

\* parseFloat(x): a number is itself, a string is read from its leading
\* decimal literal, anything else (true, an object) is NaN
ParseFloat(x) ==
    CASE x.t = "number" -> [nan |-> FALSE, n |-> x.n]
      [] x.t = "string" ->
            IF x.s # <<>> /\ \E n \in NumericLiterals : NumToString(n) = Head(x.s)
            THEN [nan |-> FALSE,
                  n |-> CHOOSE n \in NumericLiterals : NumToString(n) = Head(x.s)]
            ELSE NaN
      [] OTHER -> NaN

\* x.toFixed(2) for x >= 0 given in units of 1/10000: the nearest number of
\* cents; an exact half cent goes the way the nearest double lies (halfUp)
Cents(x) ==
    LET q == x \div 100
        r == x % 100
    IN  IF r < 50 THEN q
        ELSE IF r > 50 THEN q + 1
             ELSE IF halfUp THEN q + 1 ELSE q

ToFixed2(x) ==
    LET c == Cents(x)
    IN  ToString(c \div 100) \o "." \o
        (IF c % 100 < 10 THEN "0" ELSE "") \o ToString(c % 100)

\* `$${((baseAmount * rate) / 100).toFixed(2)}`; rate is n / 100, so
\* baseAmount * n is the amount in units of 1/10000
Currency(base, rate) ==
    IF rate.nan THEN "$NaN" ELSE "$" \o ToFixed2(base * rate.n)

\* parseFloat(vars.KEY || 0)
Rate(vs, key) == ParseFloat(OrElse(Lookup(vs, key), Num(0)))

\* CALCULATED_STATE_TAX_MONTHLY reading the local rate
CALCULATED_STATE_TAX_MONTHLY_LocalRate(vs, base) ==
    Currency(base, Rate(vs, "LOCAL_INCOME_TAX"))

CALCULATED_STATE_TAX_MONTHLY(vs, base) ==
    Currency(base, Rate(vs, "INCOME_TAX_RATE"))

CALCULATED_LOCAL_TAX_MONTHLY(vs, base) ==
    Currency(base, Rate(vs, "LOCAL_INCOME_TAX"))

CALCULATED_SDI_MONTHLY(vs, base) ==
    Currency(base, Rate(vs, "SDI_RATE"))

\* CALCULATED_TOTAL_STATE_DEDUCTIONS leaving the SDI rate out of the sum
CALCULATED_TOTAL_STATE_DEDUCTIONS_NoSdi(vs, base) ==
    LET stateRate == Rate(vs, "INCOME_TAX_RATE")
        localRate == Rate(vs, "LOCAL_INCOME_TAX")
        sum == IF stateRate.nan \/ localRate.nan THEN NaN
               ELSE [nan |-> FALSE, n |-> stateRate.n + localRate.n]
    IN  Currency(base, sum)

CALCULATED_TOTAL_STATE_DEDUCTIONS(vs, base) ==
    LET stateRate == Rate(vs, "INCOME_TAX_RATE")
        localRate == Rate(vs, "LOCAL_INCOME_TAX")
        sdiRate == Rate(vs, "SDI_RATE")
        sum == IF stateRate.nan \/ localRate.nan \/ sdiRate.nan THEN NaN
               ELSE [nan |-> FALSE, n |-> stateRate.n + localRate.n + sdiRate.n]
    IN  Currency(base, sum)

\* Object.keys(CALCULATED_FIELDS)
CalculatedFieldNames ==
    <<"CALCULATED_STATE_TAX_MONTHLY", "CALCULATED_LOCAL_TAX_MONTHLY",
      "CALCULATED_SDI_MONTHLY", "CALCULATED_TOTAL_STATE_DEDUCTIONS">>

\* the names as a set: CALCULATED_FIELDS[v] is there for these v
CalculatedFieldSet ==
    { CalculatedFieldNames[i] : i \in 1..Len(CalculatedFieldNames) }

\* CALCULATED_FIELDS[fieldName](vars, baseAmount)
CALCULATED_FIELDS(fieldName, vs, base) ==
    CASE fieldName = "CALCULATED_STATE_TAX_MONTHLY" ->
            CALCULATED_STATE_TAX_MONTHLY(vs, base)
      [] fieldName = "CALCULATED_LOCAL_TAX_MONTHLY" ->
            CALCULATED_LOCAL_TAX_MONTHLY(vs, base)
      [] fieldName = "CALCULATED_SDI_MONTHLY" ->
            CALCULATED_SDI_MONTHLY(vs, base)
      [] OTHER -> CALCULATED_TOTAL_STATE_DEDUCTIONS(vs, base)

\* baseAmount = 4000
DefaultBaseAmount == 4000

----------------------------------------------------------------------------
(* interpolateVariables *)

\* DisplayValue without the boolean case
DisplayValue_NoBooleanCase(value) ==
    CASE value.t = "number" -> <<NumToString(value.n)>>
      [] value.t = "null" -> <<"N/A">>
      [] value.t = "undefined" -> <<"N/A">>
      [] OTHER -> JsToString(value)

\* The text a value becomes when join or replace inserts it
DisplayValue(value) ==
    CASE value.t = "number" -> <<NumToString(value.n)>>
      [] value.t = "boolean" -> IF value.b THEN <<"Yes">> ELSE <<"No">>
      [] value.t = "null" -> <<"N/A">>
      [] value.t = "undefined" -> <<"N/A">>
      [] OTHER -> JsToString(value)

\* Object.keys(stateVars).forEach: one split/join per key, in key order,
\* each over the result of the one before
RECURSIVE ReplaceStateVariables(_, _)
ReplaceStateVariables(r, vs) ==
    IF vs = <<>> THEN r
    ELSE ReplaceStateVariables(
            SplitJoin(r, Placeholder(Head(vs).k), DisplayValue(Head(vs).v)),
            Tail(vs))

\* Object.keys(CALCULATED_FIELDS).forEach: calculateFn(stateVars) is called
\* without a baseAmount
RECURSIVE ReplaceCalculatedFields(_, _, _)
ReplaceCalculatedFields(r, names, vs) ==
    IF names = <<>> THEN r
    ELSE ReplaceCalculatedFields(
            SplitJoin(r, Placeholder(Head(names)),
                      <<CALCULATED_FIELDS(Head(names), vs, DefaultBaseAmount)>>),
            Tail(names), vs)

\* The metadata placeholders: String.prototype.replace, first occurrence
ReplaceMetadata(r, cd) ==
    IF cd.t = "object" /\ cd.metadata.t = "object"
    THEN StringReplace(
            StringReplace(r, Placeholder("CHAPTER_TITLE"),
                          JsToString(OrElse(cd.metadata.title, Str(<<>>)))),
            Placeholder("CHAPTER_SUBTITLE"),
            JsToString(OrElse(cd.metadata.subtitle, Str(<<>>))))
    ELSE r

\* interpolateVariables returning '' for every template that is not a string
interpolateVariables_EmptyForNonString(tpl, vs, cd) ==
    IF ~Truthy(tpl) \/ tpl.t # "string"
    THEN Str(<<>>)
    ELSE Str(ReplaceMetadata(
                ReplaceCalculatedFields(
                    ReplaceStateVariables(tpl.s, vs), CalculatedFieldNames, vs),
                cd))

\* s without the placeholders left in it
RECURSIVE StripPlaceholders(_)
StripPlaceholders(s) ==
    IF s = <<>> THEN <<>>
    ELSE IF Len(s) >= 3 /\ s[1] = "{{" /\ s[3] = "}}"
         THEN StripPlaceholders(SubSeq(s, 4, Len(s)))
         ELSE <<Head(s)>> \o StripPlaceholders(Tail(s))

\* interpolateVariables clearing the placeholders no pass has matched
interpolateVariables_StripUnmatched(tpl, vs, cd) ==
    IF ~Truthy(tpl) \/ tpl.t # "string"
    THEN OrElse(tpl, Str(<<>>))
    ELSE Str(StripPlaceholders(ReplaceMetadata(
                ReplaceCalculatedFields(
                    ReplaceStateVariables(tpl.s, vs), CalculatedFieldNames, vs),
                cd)))

interpolateVariables(tpl, vs, cd) ==
    IF ~Truthy(tpl) \/ tpl.t # "string"
    THEN OrElse(tpl, Str(<<>>))
    ELSE Str(ReplaceMetadata(
                ReplaceCalculatedFields(
                    ReplaceStateVariables(tpl.s, vs), CalculatedFieldNames, vs),
                cd))

----------------------------------------------------------------------------
(* Content documents: slides and their layout data.  An optional list is   *)
(* [t, a]: t tells whether the property is there, a holds its items.       *)

NoList == [t |-> "undefined", a |-> <<>>]

List(a) == [t |-> "array", a |-> a]

\* an object that is no array (and not iterable) where a list is expected
NotAList == [t |-> "object", a |-> <<>>]

NoBox == [t |-> "undefined", icon |-> Undefined, text |-> Undefined]

\* {}
EmptyData ==
    [t |-> "object", objectives |-> NoList, terms |-> NoList,
     columns |-> NoList, title |-> Undefined, description |-> Undefined,
     highlightBox |-> NoBox, takeaways |-> NoList, lines |-> NoList,
     items |-> NoList]

NoData == [EmptyData EXCEPT !.t = "undefined"]

NoSlideContent ==
    [t |-> "undefined", headerTitle |-> Undefined, layout |-> Undefined,
     layoutData |-> NoData]

SlideContent(headerTitle, layout, layoutData) ==
    [t |-> "object", headerTitle |-> headerTitle, layout |-> layout,
     layoutData |-> layoutData]

Slide(number, type, content) ==
    [t |-> "object", number |-> number, type |-> type,
     headerColor |-> Undefined, content |-> content]

\* null where a slide is expected
NullSlide ==
    [t |-> "null", number |-> Undefined, type |-> Undefined,
     headerColor |-> Undefined, content |-> NoSlideContent]

\* the texts of ts one after the other
RECURSIVE Concat(_)
Concat(ts) == IF ts = <<>> THEN <<>> ELSE Head(ts) \o Concat(Tail(ts))

\* `${interpolateVariables(x, stateVars, null)}`
Interp(x, vs) ==
    JsToString(interpolateVariables(x, vs, [t |-> "null"]))


----------------------------------------------------------------------------
(* JSON.stringify of layout data, without the indentation *)

JsonValue(x) ==
    CASE x.t = "string" -> <<"\"">> \o x.s \o <<"\"">>
      [] x.t = "number" -> <<NumToString(x.n)>>
      [] x.t = "boolean" -> IF x.b THEN <<"true">> ELSE <<"false">>
      [] OTHER -> <<"null">>

\* ts separated by commas
RECURSIVE JsonJoin(_)
JsonJoin(ts) ==
    IF ts = <<>> THEN <<>>
    ELSE IF Len(ts) = 1 THEN Head(ts)
         ELSE Head(ts) \o <<",">> \o JsonJoin(Tail(ts))

\* an object of the properties ps = <<[k, j]>>; j is the serialized value,
\* <<>> for a property that is undefined and left out
JsonObject(ps) ==
    LET there == SelectSeq(ps, LAMBDA q : q.j # <<>>)
    IN  <<"{">> \o JsonJoin([i \in 1..Len(there) |->
                     <<"\"" \o there[i].k \o "\":">> \o there[i].j])
            \o <<"}">>

JsonProp(x) == IF x.t = "undefined" THEN <<>> ELSE JsonValue(x)

\* a list property; Item serializes one item
JsonList(l, Item(_)) ==
    IF l.t = "undefined" THEN <<>>
    ELSE <<"[">> \o JsonJoin([i \in 1..Len(l.a) |-> Item(l.a[i])]) \o <<"]">>

\* JSON values as trees, as JSON.parse gives them: an object is its
\* properties <<[k, v]>> in insertion order, an array its items
JsonTree(ps) == [t |-> "object", ps |-> ps]

JsonArray(a) == [t |-> "array", a |-> a]

Prop(k, v) == [k |-> k, v |-> v]

\* o.k: undefined when o is no object or has no such property
Get(o, k) ==
    IF o.t = "object" /\ "ps" \in DOMAIN o /\ \E i \in 1..Len(o.ps) : o.ps[i].k = k
    THEN o.ps[CHOOSE i \in 1..Len(o.ps) : o.ps[i].k = k].v
    ELSE Undefined

\* { ...a, ...b }
Spread(a, b) ==
    JsonTree(SelectSeq(a.ps, LAMBDA p : Get(b, p.k) = Undefined) \o b.ps)

\* JSON.stringify of a tree: an undefined property is left out, an
\* undefined item is null
RECURSIVE Stringify(_)
Stringify(v) ==
    CASE v.t = "array" ->
            <<"[">> \o JsonJoin([i \in 1..Len(v.a) |-> Stringify(v.a[i])])
                \o <<"]">>
      [] v.t = "object" /\ "ps" \in DOMAIN v ->
            JsonObject([i \in 1..Len(v.ps) |->
                [k |-> v.ps[i].k,
                 j |-> IF v.ps[i].v.t = "undefined" THEN <<>>
                       ELSE Stringify(v.ps[i].v)]])
      [] OTHER -> JsonValue(v)

\* layout data read from a file keeps its tree in src and is written as
\* that tree; layout data given by its fields is written field by field
JsonStringify(data) ==
    IF "src" \in DOMAIN data THEN Stringify(data.src) ELSE
    JsonObject(<<
        [k |-> "objectives", j |-> JsonList(data.objectives, LAMBDA o :
            JsonObject(<<[k |-> "number", j |-> JsonProp(o.number)],
                         [k |-> "verb", j |-> JsonProp(o.verb)],
                         [k |-> "description", j |-> JsonProp(o.description)]>>))],
        [k |-> "terms", j |-> JsonList(data.terms, LAMBDA o :
            JsonObject(<<[k |-> "term", j |-> JsonProp(o.term)],
                         [k |-> "definition", j |-> JsonProp(o.definition)]>>))],
        [k |-> "columns", j |-> JsonList(data.columns, LAMBDA o :
            JsonObject(<<[k |-> "header", j |-> JsonProp(o.header)],
                         [k |-> "items", j |-> JsonList(o.items, JsonValue)]>>))],
        [k |-> "title", j |-> JsonProp(data.title)],
        [k |-> "description", j |-> JsonProp(data.description)],
        [k |-> "highlightBox", j |->
            IF data.highlightBox.t = "undefined" THEN <<>>
            ELSE JsonObject(<<[k |-> "icon", j |-> JsonProp(data.highlightBox.icon)],
                              [k |-> "text", j |-> JsonProp(data.highlightBox.text)]>>)],
        [k |-> "takeaways", j |-> JsonList(data.takeaways, LAMBDA o :
            JsonObject(<<[k |-> "icon", j |-> JsonProp(o.icon)],
                         [k |-> "text", j |-> JsonProp(o.text)]>>))],
        [k |-> "lines", j |-> JsonList(data.lines, LAMBDA o :
            JsonObject(<<[k |-> "type", j |-> JsonProp(o.type)],
                         [k |-> "isStateVariable", j |-> JsonProp(o.isStateVariable)],
                         [k |-> "label", j |-> JsonProp(o.label)],
                         [k |-> "amount", j |-> JsonProp(o.amount)]>>))],
        [k |-> "items", j |-> JsonList(data.items, JsonValue)] >>)

----------------------------------------------------------------------------
(* Slide generation.  `if (data.list)` holds for every array, also the     *)
(* empty one; forEach then adds one fragment per item.                     *)

\* the fragments Item gives for the items of l, nothing when l is absent
Each(l, Item(_)) ==
    IF l.t = "undefined" THEN <<>>
    ELSE Concat([i \in 1..Len(l.a) |-> Item(l.a[i])])

\* generateObjectivesLayout returning nothing when there is no list
generateObjectivesLayout_EmptyWhenAbsent(data, vs) ==
    IF data.objectives.t = "undefined" THEN <<>>
    ELSE <<"<div class=\"objectives-expanded\">\n">>
         \o Each(data.objectives, LAMBDA obj :
               <<"  <div class=\"objective-item\">\n",
                 "    <div class=\"objective-number\">">> \o JsToString(obj.number)
               \o <<"</div>\n", "    <div class=\"objective-content\">\n",
                    "      <div class=\"objective-verb\">">> \o Interp(obj.verb, vs)
               \o <<"</div>\n", "      <div class=\"objective-description\">">>
               \o Interp(obj.description, vs)
               \o <<"</div>\n", "    </div>\n", "  </div>\n">>)
         \o <<"</div>\n">>

generateObjectivesLayout(data, vs) ==
    <<"<div class=\"objectives-expanded\">\n">>
    \o Each(data.objectives, LAMBDA obj :
          <<"  <div class=\"objective-item\">\n",
            "    <div class=\"objective-number\">">> \o JsToString(obj.number)
          \o <<"</div>\n", "    <div class=\"objective-content\">\n",
               "      <div class=\"objective-verb\">">> \o Interp(obj.verb, vs)
          \o <<"</div>\n", "      <div class=\"objective-description\">">>
          \o Interp(obj.description, vs)
          \o <<"</div>\n", "    </div>\n", "  </div>\n">>)
    \o <<"</div>\n">>

generateVocabLayout(data, vs) ==
    <<"<div class=\"vocab-container\">\n">>
    \o Each(data.terms, LAMBDA term :
          <<"  <div class=\"vocab-card\">\n", "    <div class=\"vocab-term\">">>
          \o Interp(term.term, vs)
          \o <<"</div>\n", "    <div class=\"vocab-definition\">">>
          \o Interp(term.definition, vs)
          \o <<"</div>\n", "  </div>\n">>)
    \o <<"</div>\n">>

generateComparisonLayout(data, vs) ==
    <<"<div class=\"comparison-grid\">\n">>
    \o Each(data.columns, LAMBDA col :
          <<"  <div class=\"comparison-column\">\n",
            "    <div class=\"comparison-header\">">> \o Interp(col.header, vs)
          \o <<"</div>\n", "    <ul class=\"comparison-list\">\n">>
          \o Each(col.items, LAMBDA item :
                <<"      <li>">> \o Interp(item, vs) \o <<"</li>\n">>)
          \o <<"    </ul>\n", "  </div>\n">>)
    \o <<"</div>\n">>

generateScenarioLayout(data, vs) ==
    <<"<div class=\"scenario-layout\">\n">>
    \o (IF Truthy(data.title)
        THEN <<"  <h2>">> \o Interp(data.title, vs) \o <<"</h2>\n">>
        ELSE <<>>)
    \o (IF Truthy(data.description)
        THEN <<"  <p class=\"scenario-description\">">>
             \o Interp(data.description, vs) \o <<"</p>\n">>
        ELSE <<>>)
    \o (IF data.highlightBox.t # "undefined"
        THEN <<"  <div class=\"highlight-box\">\n",
               "    <span class=\"highlight-icon\">">>
             \o JsToString(data.highlightBox.icon)
             \o <<"</span>\n", "    <span class=\"highlight-text\">">>
             \o Interp(data.highlightBox.text, vs)
             \o <<"</span>\n", "  </div>\n">>
        ELSE <<>>)
    \o <<"</div>\n">>

generateTakeawayLayout(data, vs) ==
    <<"<div class=\"takeaway-grid\">\n">>
    \o Each(data.takeaways, LAMBDA item :
          <<"  <div class=\"takeaway-card\">\n",
            "    <div class=\"takeaway-icon\">">> \o JsToString(item.icon)
          \o <<"</div>\n", "    <div class=\"takeaway-text\">">>
          \o Interp(item.text, vs)
          \o <<"</div>\n", "  </div>\n">>)
    \o <<"</div>\n">>

generatePaycheckLayout(data, vs) ==
    <<"<div class=\"paycheck-breakdown\">\n",
      "  <h3>Monthly Paycheck Breakdown</h3>\n">>
    \o Each(data.lines, LAMBDA line :
          <<"  <div class=\"paycheck-line ">>
          \o JsToString(OrElse(line.type, Str(<<>>))) \o <<"\"">>
          \o (IF Truthy(line.isStateVariable)
              THEN <<" data-state-variable=\"true\"">> ELSE <<>>)
          \o <<">\n", "    <span class=\"label\">">> \o Interp(line.label, vs)
          \o <<"</span>\n", "    <span class=\"amount\">">>
          \o Interp(line.amount, vs)
          \o <<"</span>\n", "  </div>\n">>)
    \o <<"</div>\n">>

generateBulletListLayout(data, vs) ==
    <<"<div class=\"bullet-list-full\">\n">>
    \o (IF data.items.t # "undefined"
        THEN <<"  <ul>\n">>
             \o Each(data.items, LAMBDA item :
                   <<"    <li>">> \o Interp(item, vs) \o <<"</li>\n">>)
             \o <<"  </ul>\n">>
        ELSE <<>>)
    \o <<"</div>\n">>

generateGenericLayout(data, vs) ==
    <<"<div class=\"generic-content\">\n", "  <pre>">>
    \o JsonStringify(data) \o <<"</pre>\n", "</div>\n">>

generateLayoutContent(content, vs) ==
    IF content.t # "object" \/ ~Truthy(content.layout) THEN <<>>
    ELSE LET layoutData == IF content.layoutData.t = "object"
                           THEN content.layoutData ELSE EmptyData
         IN  CASE content.layout = Str(<<"objectives-expanded">>) ->
                    generateObjectivesLayout(layoutData, vs)
               [] content.layout = Str(<<"vocab-container">>) ->
                    generateVocabLayout(layoutData, vs)
               [] content.layout = Str(<<"comparison-grid">>) ->
                    generateComparisonLayout(layoutData, vs)
               [] content.layout = Str(<<"scenario-layout">>) ->
                    generateScenarioLayout(layoutData, vs)
               [] content.layout = Str(<<"takeaway-grid">>) ->
                    generateTakeawayLayout(layoutData, vs)
               [] content.layout = Str(<<"paycheck-breakdown">>) ->
                    generatePaycheckLayout(layoutData, vs)
               [] content.layout = Str(<<"bullet-list-full">>) ->
                    generateBulletListLayout(layoutData, vs)
               [] OTHER -> generateGenericLayout(layoutData, vs)

generateSlideHTML(sl, vs) ==
    <<"<div class=\"slide ", "slide-">> \o JsToString(sl.type) \o <<"\">\n">>
    \o (IF sl.content.t = "object" /\ Truthy(sl.content.headerTitle)
        THEN <<"  <div class=\"slide-header ">>
             \o JsToString(OrElse(sl.headerColor, Str(<<"purple">>)))
             \o <<"\">\n", "    <h1>">>
             \o Interp(sl.content.headerTitle, vs)
             \o <<"</h1>\n", "  </div>\n">>
        ELSE <<>>)
    \o <<"  <div class=\"slide-body\">\n">>
    \o generateLayoutContent(sl.content, vs)
    \o <<"  </div>\n", "  <div class=\"slide-footer\">\n",
         "    <span class=\"slide-number\">">> \o JsToString(sl.number)
    \o <<"</span>\n", "  </div>\n", "</div>\n\n">>

----------------------------------------------------------------------------
(* Inputs *)

\* Longest template, in segments
MaxSegs == 2

\* The pieces templates are put together from: a word, placeholders of
\* state variables, of an unknown name, of a calculated field and of the
\* metadata, and the two brace pairs on their own
Segments ==
    { <<"x">>, Placeholder("A"), Placeholder("B"), Placeholder("Z"),
      Placeholder("CALCULATED_STATE_TAX_MONTHLY"),
      Placeholder("CHAPTER_TITLE"), <<"{{">>, <<"}}">> }

RECURSIVE Texts(_)
Texts(n) ==
    IF n = 0 THEN {<<>>}
    ELSE Texts(n - 1) \cup {t \o g : t \in Texts(n - 1), g \in Segments}

\* Templates that are not strings
NonStrings == {Null, Undefined, Num(0), Num(500), Bool(TRUE), Bool(FALSE), Obj}

Templates == {Str(t) : t \in Texts(MaxSegs)} \cup NonStrings

\* The values a state variable takes, by key
ValuesOf(k) ==
    CASE k = "A" ->
            { Num(475), Bool(TRUE), Bool(FALSE), Null, Str(<<"s">>),
              Str(Placeholder("B")), Str(Placeholder("CHAPTER_TITLE")),
              Str(Placeholder("CALCULATED_STATE_TAX_MONTHLY")) }
      [] k = "B" -> { Num(-25), Str(<<"s">>), Str(Placeholder("A")) }
      [] k = "INCOME_TAX_RATE" -> { Num(475), Str(<<"4.75">>) }
      [] OTHER -> { Str(<<"s">>) }

Keys == {"A", "B", "INCOME_TAX_RATE", "CALCULATED_STATE_TAX_MONTHLY"}

Entries == UNION {{[k |-> k, v |-> v] : v \in ValuesOf(k)} : k \in Keys}

\* State Variable Sets of at most two keys, in either key order
VarSets ==
    {<<>>} \cup {<<e>> : e \in Entries}
           \cup {<<p[1], p[2]>> :
                    p \in {q \in Entries \X Entries : q[1].k # q[2].k}}

NoMetadata ==
    [t |-> "undefined", lChapter |-> Undefined, title |-> Undefined,
     subtitle |-> Undefined, hasStateVariables |-> Undefined,
     stateVariablesUsed |-> NoList]

\* metadata with a title and a subtitle only
Metadata(title, subtitle) ==
    [NoMetadata EXCEPT !.t = "object", !.title = title, !.subtitle = subtitle]

NoContent == [t |-> "null", metadata |-> NoMetadata, slides |-> NoList]

Content(metadata, slides) ==
    [t |-> "object", metadata |-> metadata, slides |-> slides]

Contents ==
    { NoContent, Content(Metadata(Str(<<"T">>), Undefined), NoList) }

\* String.prototype.toLowerCase and toUpperCase, atom by atom
ToLowerCase(s) ==
    [i \in 1..Len(s) |->
        CASE s[i] = "O" -> "o" [] s[i] = "K" -> "k" [] s[i] = "L-" -> "l-"
          [] OTHER -> s[i]]

ToUpperCase(s) ==
    [i \in 1..Len(s) |->
        CASE s[i] = "o" -> "O" [] s[i] = "k" -> "K" [] s[i] = "l-" -> "L-"
          [] OTHER -> s[i]]

\* stateName.charAt(0).toUpperCase() + stateName.slice(1)
Capitalize(s) ==
    IF s = <<>> THEN <<>> ELSE ToUpperCase(<<Head(s)>>) \o Tail(s)

\* possibleNames of loadChapterMapping
possibleNames(stateName) ==
    << stateName \o <<"-simple-data.md">>,
       Capitalize(stateName) \o <<"-simple-data.md">>,
       ToUpperCase(stateName) \o <<"-simple-data.md">> >>

\* the names a file of the chapter mapping directory may have
MappingNames ==
    { n \o <<"-simple-data.md">> :
        n \in { <<"o", "k">>, <<"O", "k">>, <<"O", "K">>, <<"o", "K">> } }

NoFile == [there |-> FALSE, ok |-> FALSE, data |-> <<>>]

NoMapping == [stateChapter |-> Undefined, title |-> Undefined, found |-> FALSE]

\* no run of generateSlideDeck is under way
\* a file system without any of the files
NoFiles ==
    [template |-> NoFile, content |-> NoFile, stateData |-> NoFile,
     mapping |-> [n \in MappingNames |-> NoFile]]

NoRun ==
    /\ fs = NoFiles
    /\ state = <<>>
    /\ lChapter = <<>>
    /\ pc = "none"
    /\ loads = <<>>
    /\ mappingContent = <<>>
    /\ mapping = NoMapping
    /\ warnings = 0
    /\ written = {}
    /\ exitCode = -1

\* no slide at all
NoSlide == Slide(Undefined, Undefined, NoSlideContent)

NoRender ==
    /\ slide = NoSlide
    /\ html = <<>>
    /\ slideHTML = <<>>

NoValidate ==
    /\ file = NoFile
    /\ errors = <<>>
    /\ warned = <<>>
    /\ isValid = FALSE

\* an element of a parsed document, no element, and no node: an element
\* with the class names of its ancestors
El(tag, classList, text, kids) ==
    [t |-> "element", tag |-> tag, classList |-> classList, style |-> <<>>,
     fontSize |-> 0, text |-> text, kids |-> kids]

NoElement == [El("", <<>>, <<>>, <<>>) EXCEPT !.t = "null"]

NoNode == [el |-> NoElement, anc |-> {}]

NoConvert ==
    /\ dom = NoNode
    /\ jsonOutput = Undefined
    /\ fragments = <<>>

\* no run of processAllFiles is under way
NoCounts == [processed |-> 0, skipped |-> 0, errors |-> 0]

NoBatch ==
    /\ args = <<>>
    /\ sourceDir = {}
    /\ outputDir = {}
    /\ htmlFiles = <<>>
    /\ counts = NoCounts
    /\ walked = <<>>

NoCalc == [state |-> "", local |-> "", sdi |-> "", total |-> ""]

----------------------------------------------------------------------------
(* interpolateVariables applied to a template, and then to its own result *)

InitInterp ==
    /\ op = "init"
    /\ template \in Templates
    /\ stateVars \in VarSets
    /\ contentData \in Contents
    /\ result = Undefined
    /\ again = Undefined
    /\ baseAmount = DefaultBaseAmount
    /\ halfUp = TRUE
    /\ calc = NoCalc
    /\ NoRun
    /\ NoRender
    /\ NoValidate
    /\ NoConvert
    /\ NoBatch

Interpolate ==
    /\ op = "init"
    /\ op' = "interpolateVariables"
    /\ result' = interpolateVariables(template, stateVars, contentData)
    /\ UNCHANGED <<template, stateVars, contentData, again, baseAmount,
                   halfUp, calc>>
    /\ UNCHANGED runVars
    /\ UNCHANGED renderVars
    /\ UNCHANGED validateVars
    /\ UNCHANGED convertVars
    /\ UNCHANGED batchVars

InterpolateAgain ==
    /\ op = "interpolateVariables"
    /\ op' = "again"
    /\ again' = interpolateVariables(result, stateVars, contentData)
    /\ UNCHANGED <<template, stateVars, contentData, result, baseAmount,
                   halfUp, calc>>
    /\ UNCHANGED runVars
    /\ UNCHANGED renderVars
    /\ UNCHANGED validateVars
    /\ UNCHANGED convertVars
    /\ UNCHANGED batchVars

NextInterp == Interpolate \/ InterpolateAgain

SpecInterp == InitInterp /\ [][NextInterp]_vars

----------------------------------------------------------------------------
(* interpolateVariables applied to templates that hold the metadata        *)
(* placeholders, with content documents of every shape of metadata         *)

MaxMetaSegs == 2

MetaSegments ==
    { <<"x">>, Placeholder("A"), Placeholder("CHAPTER_TITLE"),
      Placeholder("CHAPTER_SUBTITLE") }

RECURSIVE MetaTexts(_)
MetaTexts(n) ==
    IF n = 0 THEN {<<>>}
    ELSE MetaTexts(n - 1) \cup {t \o g : t \in MetaTexts(n - 1), g \in MetaSegments}

MetaVarSets == { <<>>, <<[k |-> "A", v |-> Str(<<"s">>)]>> }

\* no document, a document without metadata, and metadata with and without
\* a title and a subtitle; a title may hold dollar signs
MetaContents ==
    { NoContent, Content(NoMetadata, NoList) }
        \cup { Content(Metadata(title, subtitle), NoList) :
                 title \in {Undefined, Str(<<"T">>), Str(<<"Save ", "$$", " now">>),
                            Str(<<"$&">>)},
                 subtitle \in {Undefined, Str(<<"S">>)} }

InitMeta ==
    /\ op = "init"
    /\ template \in {Str(t) : t \in MetaTexts(MaxMetaSegs)}
    /\ stateVars \in MetaVarSets
    /\ contentData \in MetaContents
    /\ result = Undefined
    /\ again = Undefined
    /\ baseAmount = DefaultBaseAmount
    /\ halfUp = TRUE
    /\ calc = NoCalc
    /\ NoRun
    /\ NoRender
    /\ NoValidate
    /\ NoConvert
    /\ NoBatch

SpecMeta == InitMeta /\ [][NextInterp]_vars

----------------------------------------------------------------------------
(* The calculated fields applied to a State Variable Set and a base amount *)

\* What a rate variable holds; undefined stands for a missing key
RateValues ==
    { Undefined, Null, Num(0), Num(1), Num(110), Num(475), Str(<<"4.75">>),
      Str(<<"none">>), Bool(TRUE) }

\* The set with the three rate variables, a missing one left out
RateVars(stateRate, localRate, sdiRate) ==
    SelectSeq(<<[k |-> "INCOME_TAX_RATE", v |-> stateRate],
                [k |-> "LOCAL_INCOME_TAX", v |-> localRate],
                [k |-> "SDI_RATE", v |-> sdiRate]>>,
              LAMBDA e : e.v # Undefined)

\* Base amounts, in whole dollars
Bases == {DefaultBaseAmount, 4001, 50}

InitCalc ==
    /\ op = "init"
    /\ template = Undefined
    /\ stateVars \in {RateVars(a, b, c) : a, b, c \in RateValues}
    /\ contentData = NoContent
    /\ result = Undefined
    /\ again = Undefined
    /\ baseAmount \in Bases
    /\ halfUp \in BOOLEAN
    /\ calc = NoCalc
    /\ NoRun
    /\ NoRender
    /\ NoValidate
    /\ NoConvert
    /\ NoBatch

Calculate ==
    /\ op = "init"
    /\ op' = "CALCULATED_FIELDS"
    /\ calc' = [state |-> CALCULATED_STATE_TAX_MONTHLY(stateVars, baseAmount),
                local |-> CALCULATED_LOCAL_TAX_MONTHLY(stateVars, baseAmount),
                sdi |-> CALCULATED_SDI_MONTHLY(stateVars, baseAmount),
                total |-> CALCULATED_TOTAL_STATE_DEDUCTIONS(stateVars, baseAmount)]
    /\ UNCHANGED <<template, stateVars, contentData, result, again,
                   baseAmount, halfUp>>
    /\ UNCHANGED runVars
    /\ UNCHANGED renderVars
    /\ UNCHANGED validateVars
    /\ UNCHANGED convertVars
    /\ UNCHANGED batchVars

NextCalc == Calculate

SpecCalc == InitCalc /\ [][NextCalc]_vars

----------------------------------------------------------------------------
(* generateLayoutContent and generateSlideHTML applied to one slide *)

\* longest list of a layout's data
MaxItems == 2

\* the lists of at most n items of S
ListsOf(S, n) == UNION {[1..k -> S] : k \in 0..n}

\* the names the switch of generateLayoutContent knows
KnownLayouts ==
    { Str(<<"objectives-expanded">>), Str(<<"vocab-container">>),
      Str(<<"comparison-grid">>), Str(<<"scenario-layout">>),
      Str(<<"takeaway-grid">>), Str(<<"paycheck-breakdown">>),
      Str(<<"bullet-list-full">>) }

\* content.layout: absent, null, '', a known name, other names
Layouts ==
    KnownLayouts \cup { Undefined, Null, Str(<<>>), Str(<<"mystery">>),
                        Str(<<"Objectives-Expanded">>) }

Objectives ==
    { [number |-> Num(100), verb |-> Str(<<"Explain">>),
       description |-> Str(<<"taxes in ">> \o Placeholder("A"))],
      [number |-> Num(200), verb |-> Str(<<"Compare">>),
       description |-> Undefined] }

\* content.layoutData: absent, {}, with objectives, with other fields
LayoutDatas ==
    { NoData, EmptyData,
      [EmptyData EXCEPT !.title = Str(<<"Payday">>),
                        !.items = List(<<Str(Placeholder("A"))>>)] }
    \cup { [EmptyData EXCEPT !.objectives = List(l)] :
                l \in ListsOf(Objectives, MaxItems) }

Slides ==
    { Slide(Num(300), Str(<<"content">>), c) :
        c \in {NoSlideContent}
              \cup { SlideContent(h, l, data) :
                        h \in {Undefined, Str(<<"Goals">>)},
                        l \in Layouts, data \in LayoutDatas } }

InitRender ==
    /\ op = "init"
    /\ template = Undefined
    /\ stateVars \in { <<>>, <<[k |-> "A", v |-> Str(<<"Oklahoma">>)]>> }
    /\ contentData = NoContent
    /\ result = Undefined
    /\ again = Undefined
    /\ baseAmount = DefaultBaseAmount
    /\ halfUp = TRUE
    /\ calc = NoCalc
    /\ NoRun
    /\ slide \in Slides
    /\ html = <<>>
    /\ slideHTML = <<>>
    /\ NoValidate
    /\ NoConvert
    /\ NoBatch

GenerateLayoutContent ==
    /\ op = "init"
    /\ op' = "generateLayoutContent"
    /\ html' = generateLayoutContent(slide.content, stateVars)
    /\ UNCHANGED <<template, stateVars, contentData, result, again,
                   baseAmount, halfUp, calc, slide, slideHTML>>
    /\ UNCHANGED runVars
    /\ UNCHANGED validateVars
    /\ UNCHANGED convertVars
    /\ UNCHANGED batchVars

GenerateSlideHTML ==
    /\ op = "generateLayoutContent"
    /\ op' = "generateSlideHTML"
    /\ slideHTML' = generateSlideHTML(slide, stateVars)
    /\ UNCHANGED <<template, stateVars, contentData, result, again,
                   baseAmount, halfUp, calc, slide, html>>
    /\ UNCHANGED runVars
    /\ UNCHANGED validateVars
    /\ UNCHANGED convertVars
    /\ UNCHANGED batchVars

NextRender == GenerateLayoutContent \/ GenerateSlideHTML

SpecRender == InitRender /\ [][NextRender]_vars

----------------------------------------------------------------------------
(* parseChapterMapping.  The mapping document is a sequence of lines; a    *)
(* line is text in which "|" and " " are atoms of their own.               *)

\* s.trim()
RECURSIVE TrimLeft(_)
TrimLeft(s) == IF s # <<>> /\ Head(s) = " " THEN TrimLeft(Tail(s)) ELSE s

RECURSIVE TrimRight(_)
TrimRight(s) ==
    IF s # <<>> /\ s[Len(s)] = " " THEN TrimRight(SubSeq(s, 1, Len(s) - 1))
    ELSE s

Trim(s) == TrimRight(TrimLeft(s))

\* row.split('|'): the pieces between the bars, in order
RECURSIVE SplitBars(_, _)
SplitBars(s, piece) ==
    IF s = <<>> THEN <<piece>>
    ELSE IF Head(s) = "|" THEN <<piece>> \o SplitBars(Tail(s), <<>>)
         ELSE SplitBars(Tail(s), Append(piece, Head(s)))

\* row.split('|').map(col => col.trim()).filter(col => col)
Columns(row) ==
    SelectSeq([i \in 1..Len(SplitBars(row, <<>>)) |->
                    Trim(SplitBars(row, <<>>)[i])],
              LAMBDA col : col # <<>>)

\* lines.filter(line => line.trim().startsWith('|'))
TableRows(lines) ==
    SelectSeq(lines, LAMBDA line : Trim(line) # <<>> /\ Head(Trim(line)) = "|")

\* columns[i] of a row, undefined past its end (i counts from 0)
Column(columns, i) ==
    IF i + 1 <= Len(columns) THEN Str(columns[i + 1]) ELSE Undefined

\* the for loop over tableRows: the first row whose columns[0] is lChapter
\* the for loop returning columns[2] as it is, without the placeholder title
RECURSIVE FirstMatch_NoPlaceholderTitle(_, _)
FirstMatch_NoPlaceholderTitle(rows, id) ==
    IF rows = <<>> THEN NoMapping
    ELSE IF Column(Columns(Head(rows)), 0) = Str(id)
         THEN [stateChapter |-> Column(Columns(Head(rows)), 1),
               title |-> Column(Columns(Head(rows)), 2),
               found |-> TRUE]
         ELSE FirstMatch_NoPlaceholderTitle(Tail(rows), id)

RECURSIVE FirstMatch(_, _)
FirstMatch(rows, id) ==
    IF rows = <<>> THEN NoMapping
    ELSE IF Column(Columns(Head(rows)), 0) = Str(id)
         THEN [stateChapter |-> Column(Columns(Head(rows)), 1),
               title |-> OrElse(Column(Columns(Head(rows)), 2),
                                Str(<<"Unknown Chapter">>)),
               found |-> TRUE]
         ELSE FirstMatch(Tail(rows), id)

\* found tells the two returns apart: the fallback is the one that warns
parseChapterMapping(markdownContent, id) ==
    LET match == FirstMatch(TableRows(markdownContent), id)
    IN  IF match.found THEN match
        ELSE [stateChapter |-> Str(StringReplace(id, <<"L-">>, <<>>)),
              title |-> Str(<<"Unknown Chapter">>),
              found |-> FALSE]

----------------------------------------------------------------------------
(* parseChapterMapping applied to a mapping document and a chapter id *)

\* most lines of a mapping document
MaxLines == 2

Row(id, chapter, title) ==
    <<"|", " ">> \o id \o <<" ", "|", " ">> \o chapter \o <<" ", "|", " ">>
        \o title \o <<" ", "|">>

\* lines of a mapping document: rows for L-03 with three, two and one cell,
\* with an empty second cell, with an empty first cell, indented, in lower case, without the leading bar,
\* a row for another chapter, a separator row, a heading and an empty line
MappingLines ==
    { Row(<<"L-", "03">>, <<"1.3">>, <<"Income and Taxes">>),
      Row(<<"L-", "03">>, <<"2.3">>, <<"Paychecks">>),
      Row(<<"L-", "03">>, <<>>, <<"Income and Taxes">>),
      <<"|", " ", "L-", "03", " ", "|", " ", "1.3", " ", "|">>,
      <<"|", "L-", "03", "|">>,
      <<"|", " ", "|", " ", "L-", "03", " ", "|", " ", " ", "|", "1.3", "|">>,
      <<" ", " ">> \o Row(<<"L-", "03">>, <<"3.3">>, <<"Income">>),
      Row(<<"l-", "03">>, <<"4.3">>, <<"Lower">>),
      <<"L-", "03", " ", "|", " ", "5.3", " ", "|", " ", "No bar", " ", "|">>,
      Row(<<"L-", "01">>, <<"1.1">>, <<"Getting Started">>),
      <<"|", "---", "|", "---", "|", "---", "|">>,
      <<"# Oklahoma">>,
      <<>> }

\* chapter ids: with a row, without one, and one with "L-" inside
MappingQueries == { <<"L-", "03">>, <<"L-", "99">>, <<"FINA", "L-", "03">> }

InitMapping ==
    /\ op = "init"
    /\ template = Undefined
    /\ stateVars = <<>>
    /\ contentData = NoContent
    /\ result = Undefined
    /\ again = Undefined
    /\ baseAmount = DefaultBaseAmount
    /\ halfUp = TRUE
    /\ calc = NoCalc
    /\ fs = NoFiles
    /\ state = <<>>
    /\ lChapter \in MappingQueries
    /\ pc = "none"
    /\ loads = <<>>
    /\ mappingContent \in UNION {[1..n -> MappingLines] : n \in 0..MaxLines}
    /\ mapping = NoMapping
    /\ warnings = 0
    /\ written = {}
    /\ exitCode = -1
    /\ NoRender
    /\ NoValidate
    /\ NoConvert
    /\ NoBatch

\* one call; console.warn is counted
ParseMapping ==
    /\ op = "init"
    /\ op' = "parseChapterMapping"
    /\ mapping' = parseChapterMapping(mappingContent, lChapter)
    /\ warnings' = IF mapping'.found THEN warnings ELSE warnings + 1
    /\ UNCHANGED <<template, stateVars, contentData, result, again,
                   baseAmount, halfUp, calc, fs, state, lChapter, pc, loads,
                   mappingContent, written, exitCode>>
    /\ UNCHANGED renderVars
    /\ UNCHANGED validateVars
    /\ UNCHANGED convertVars
    /\ UNCHANGED batchVars

NextMapping == ParseMapping

SpecMapping == InitMapping /\ [][NextMapping]_vars

----------------------------------------------------------------------------
(* generateSlideDeck, run by main for one state and one chapter *)

File(data) == [there |-> TRUE, ok |-> TRUE, data |-> data]

\* a file that is there and cannot be read, or read and not parsed as JSON
BadFile == [there |-> TRUE, ok |-> FALSE, data |-> <<>>]

\* process.exit(code)
Exit(code) == pc' = "exit" /\ exitCode' = code

\* the loop going on to the last of possibleNames that exists
FirstExisting_LastWins(files) ==
    IF \E i \in 1..Len(files) : files[i].there
    THEN CHOOSE i \in 1..Len(files) :
            files[i].there /\ \A j \in (i + 1)..Len(files) : ~files[j].there
    ELSE 0

\* the first of possibleNames that exists, 0 if none does
FirstExisting(files) ==
    IF \E i \in 1..Len(files) : files[i].there
    THEN CHOOSE i \in 1..Len(files) :
            files[i].there /\ \A j \in 1..(i - 1) : ~files[j].there
    ELSE 0

loadTemplate ==
    /\ pc = "loadTemplate"
    /\ loads' = Append(loads, "template")
    /\ IF fs.template.there /\ fs.template.ok
       THEN /\ template' = Str(fs.template.data)
            /\ pc' = "loadContentJSON"
            /\ UNCHANGED exitCode
       ELSE /\ Exit(1)
            /\ UNCHANGED template
    /\ UNCHANGED <<stateVars, contentData, callVars, fs, state, lChapter,
                   mappingContent, mapping, warnings, written>>
    /\ UNCHANGED renderVars
    /\ UNCHANGED validateVars
    /\ UNCHANGED convertVars
    /\ UNCHANGED batchVars

loadContentJSON ==
    /\ pc = "loadContentJSON"
    /\ loads' = Append(loads, "content")
    /\ IF fs.content.there /\ fs.content.ok
       THEN /\ contentData' = fs.content.data
            /\ pc' = "loadStateVariables"
            /\ UNCHANGED exitCode
       ELSE /\ Exit(1)
            /\ UNCHANGED contentData
    /\ UNCHANGED <<template, stateVars, callVars, fs, state, lChapter,
                   mappingContent, mapping, warnings, written>>
    /\ UNCHANGED renderVars
    /\ UNCHANGED validateVars
    /\ UNCHANGED convertVars
    /\ UNCHANGED batchVars

\* loadStateVariables logging the failure and going on without the data
loadStateVariables_NoExit ==
    /\ pc = "loadStateVariables"
    /\ loads' = Append(loads, "stateData")
    /\ stateVars' = IF fs.stateData.there /\ fs.stateData.ok
                    THEN fs.stateData.data ELSE stateVars
    /\ pc' = "loadChapterMapping"
    /\ UNCHANGED <<template, contentData, callVars, fs, state, lChapter,
                   mappingContent, mapping, warnings, written, exitCode>>
    /\ UNCHANGED renderVars
    /\ UNCHANGED validateVars
    /\ UNCHANGED convertVars
    /\ UNCHANGED batchVars

loadStateVariables ==
    /\ pc = "loadStateVariables"
    /\ loads' = Append(loads, "stateData")
    /\ IF fs.stateData.there /\ fs.stateData.ok
       THEN /\ stateVars' = fs.stateData.data
            /\ pc' = "loadChapterMapping"
            /\ UNCHANGED exitCode
       ELSE /\ Exit(1)
            /\ UNCHANGED stateVars
    /\ UNCHANGED <<template, contentData, callVars, fs, state, lChapter,
                   mappingContent, mapping, warnings, written>>
    /\ UNCHANGED renderVars
    /\ UNCHANGED validateVars
    /\ UNCHANGED convertVars
    /\ UNCHANGED batchVars

loadChapterMapping ==
    /\ pc = "loadChapterMapping"
    /\ loads' = Append(loads, "mapping")
    /\ LET files == [k \in 1..3 |-> fs.mapping[possibleNames(state)[k]]]
           i == FirstExisting(files)
       IN  IF i # 0 /\ files[i].ok
           THEN /\ mappingContent' = files[i].data
                /\ pc' = "parseChapterMapping"
                /\ UNCHANGED exitCode
           ELSE /\ Exit(1)
                /\ UNCHANGED mappingContent
    /\ UNCHANGED <<template, stateVars, contentData, callVars, fs, state,
                   lChapter, mapping, warnings, written>>
    /\ UNCHANGED renderVars
    /\ UNCHANGED validateVars
    /\ UNCHANGED convertVars
    /\ UNCHANGED batchVars

\* generateSlideDeck treating a chapter without a row as a fatal error
ParseChapterMapping_FatalWhenMissing ==
    /\ pc = "parseChapterMapping"
    /\ mapping' = parseChapterMapping(mappingContent, lChapter)
    /\ warnings' = IF mapping'.found THEN warnings ELSE warnings + 1
    /\ IF mapping'.found
       THEN pc' = "generateSlides" /\ UNCHANGED exitCode
       ELSE Exit(1)
    /\ UNCHANGED <<template, stateVars, contentData, callVars, fs, state,
                   lChapter, loads, mappingContent, written>>
    /\ UNCHANGED renderVars
    /\ UNCHANGED validateVars
    /\ UNCHANGED convertVars
    /\ UNCHANGED batchVars

ParseChapterMapping ==
    /\ pc = "parseChapterMapping"
    /\ mapping' = parseChapterMapping(mappingContent, lChapter)
    /\ warnings' = IF mapping'.found THEN warnings ELSE warnings + 1
    /\ pc' = "generateSlides"
    /\ UNCHANGED <<template, stateVars, contentData, callVars, fs, state,
                   lChapter, loads, mappingContent, written, exitCode>>
    /\ UNCHANGED renderVars
    /\ UNCHANGED validateVars
    /\ UNCHANGED convertVars
    /\ UNCHANGED batchVars

\* slidesHTML: the slides in document order
SlidesHTML(cd, vs) ==
    Concat([i \in 1..Len(cd.slides.a) |-> generateSlideHTML(cd.slides.a[i], vs)])

\* finalHTML as it is written
FinalHTML(tpl, cd, vs, m) ==
    StringReplace(
        JsToString(interpolateVariables(
            Str(StringReplace(tpl.s, <<"<!-- SLIDES_CONTENT -->">>,
                              SlidesHTML(cd, vs))),
            vs, cd)),
        Placeholder("STATE_CHAPTER"), JsToString(m.stateChapter))

\* `chapter-${mapping.stateChapter}-slides.html`
OutputFileName(m) ==
    <<"chapter-">> \o JsToString(m.stateChapter) \o <<"-slides.html">>

\* The rest of generateSlideDeck.  contentData.slides.length throws for a
\* document without slides, forEach for slides that are no array, and
\* slide.type for a slide that is null; main catches it and exits with 1.
GenerateSlides ==
    /\ pc = "generateSlides"
    /\ IF \/ contentData.t # "object"
          \/ contentData.slides.t # "array"
          \/ \E i \in 1..Len(contentData.slides.a) :
                contentData.slides.a[i].t = "null"
       THEN /\ Exit(1)
            /\ UNCHANGED written
       ELSE /\ written' = written \cup
                   {[dir |-> state, name |-> OutputFileName(mapping),
                     html |-> FinalHTML(template, contentData, stateVars, mapping)]}
            /\ Exit(0)
    /\ UNCHANGED <<template, stateVars, contentData, callVars, fs, state,
                   lChapter, loads, mappingContent, mapping, warnings>>
    /\ UNCHANGED renderVars
    /\ UNCHANGED validateVars
    /\ UNCHANGED convertVars
    /\ UNCHANGED batchVars

\* slide-template.html
TemplateText ==
    <<"<title>">> \o Placeholder("CHAPTER_TITLE") \o <<" ">>
        \o Placeholder("STATE_CHAPTER")
        \o <<"</title>", "<!-- SLIDES_CONTENT -->", "</html>">>

TitleSlide == Slide(Num(100), Str(<<"title">>), NoSlideContent)

BulletSlide ==
    Slide(Num(200), Str(<<"content">>),
          SlideContent(Str(<<"Taxes in ">> \o Placeholder("A")),
                       Str(<<"bullet-list-full">>),
                       [EmptyData EXCEPT
                           !.items = List(<<Str(Placeholder("A")), Str(<<"x">>)>>)]))

ObjectivesSlide ==
    Slide(Num(300), Str(<<"content">>),
          SlideContent(Undefined, Str(<<"objectives-expanded">>),
                       [EmptyData EXCEPT
                           !.objectives = List(<<[number |-> Num(100),
                                                  verb |-> Str(<<"Explain">>),
                                                  description |-> Str(Placeholder("B"))]>>)]))

UnknownLayoutSlide ==
    Slide(Num(400), Str(<<"content">>),
          SlideContent(Str(<<"More">>), Str(<<"mystery">>),
                       [EmptyData EXCEPT !.title = Str(<<"x">>)]))

\* a slide whose texts hold dollar signs
DollarSlide ==
    Slide(Num(100), Str(<<"content">>),
          SlideContent(Str(<<"Save ", "$$", " now">>),
                       Str(<<"bullet-list-full">>),
                       [EmptyData EXCEPT
                           !.items = List(<<Str(<<"$&">>), Str(<<"x">>)>>)]))

\* slide-content/L-XX.json: null, a document without slides, and decks
ContentFiles ==
    { NoContent,
      Content(Metadata(Str(<<"Income and Taxes">>), Undefined), NoList),
      Content(Metadata(Str(<<"Income and Taxes">>), Undefined), List(<<>>)),
      Content(Metadata(Str(<<"Income and Taxes">>), Str(<<"Unit 1">>)),
              List(<<TitleSlide, BulletSlide>>)),
      Content(Metadata(Str(<<"Income and Taxes">>), Undefined),
              List(<<DollarSlide>>)),
      Content(NoMetadata, List(<<ObjectivesSlide, UnknownLayoutSlide>>)) }

\* state-data/states/{state}.json
StateFiles ==
    { <<>>,
      <<[k |-> "A", v |-> Str(<<"Oklahoma">>)]>>,
      <<[k |-> "B", v |-> Num(475)], [k |-> "A", v |-> Str(Placeholder("B"))]>> }

\* {State}-simple-data.md, with and without a row for L-03
MappingFiles ==
    { << <<"# Oklahoma">>,
         Row(<<"L-Chapter">>, <<"Chapter">>, <<"Title">>),
         Row(<<"L-", "01">>, <<"1.1">>, <<"Getting Started">>),
         Row(<<"L-", "03">>, <<"1.3">>, <<"Income and Taxes">>) >>,
      << Row(<<"L-Chapter">>, <<"Chapter">>, <<"Title">>),
         <<>>,
         Row(<<"L-", "01">>, <<"1.1">>, <<"Getting Started">>) >> }

\* --state= and --chapter= as they are typed
StateArgs == { <<"o", "k">>, <<"O", "K">> }

ChapterArgs == { <<"l-", "03">>, <<"L-", "03">>, <<"L-", "99">> }

\* options.chapter: arg.split('=')[1].toUpperCase()
Chapters == { ToUpperCase(c) : c \in ChapterArgs }

\* options.state: arg.split('=')[1].toLowerCase()
States == { ToLowerCase(a) : a \in StateArgs }

Init ==
    /\ op = "generateSlideDeck"
    /\ template = Undefined
    /\ stateVars = <<>>
    /\ contentData = NoContent
    /\ result = Undefined
    /\ again = Undefined
    /\ baseAmount = DefaultBaseAmount
    /\ halfUp = TRUE
    /\ calc = NoCalc
    /\ fs \in [template : {NoFile, BadFile, File(TemplateText)},
               content : {NoFile, BadFile} \cup {File(c) : c \in ContentFiles},
               stateData : {NoFile, BadFile} \cup {File(v) : v \in StateFiles},
               mapping : [MappingNames ->
                            {NoFile, BadFile} \cup {File(m) : m \in MappingFiles}]]
    /\ state \in States
    /\ lChapter \in Chapters
    /\ pc = "loadTemplate"
    /\ loads = <<>>
    /\ mappingContent = <<>>
    /\ mapping = NoMapping
    /\ warnings = 0
    /\ written = {}
    /\ exitCode = -1
    /\ NoRender
    /\ NoValidate
    /\ NoConvert
    /\ NoBatch

Next ==
    \/ loadTemplate
    \/ loadContentJSON
    \/ loadStateVariables
    \/ loadChapterMapping
    \/ ParseChapterMapping
    \/ GenerateSlides

Spec == Init /\ [][Next]_vars

----------------------------------------------------------------------------
(* validateContentJSON, run by main for --validate *)

\* JSON.stringify(data) of a content document
JsonSlide(sl) ==
    IF sl.t = "null" THEN <<"null">>
    ELSE JsonObject(<<
            [k |-> "number", j |-> JsonProp(sl.number)],
            [k |-> "type", j |-> JsonProp(sl.type)],
            [k |-> "headerColor", j |-> JsonProp(sl.headerColor)],
            [k |-> "content", j |->
                IF sl.content.t = "undefined" THEN <<>>
                ELSE JsonObject(<<
                        [k |-> "headerTitle", j |-> JsonProp(sl.content.headerTitle)],
                        [k |-> "layout", j |-> JsonProp(sl.content.layout)],
                        [k |-> "layoutData", j |->
                            IF sl.content.layoutData.t = "undefined" THEN <<>>
                            ELSE JsonStringify(sl.content.layoutData)] >>)] >>)

JsonMetadata(m) ==
    JsonObject(<<
        [k |-> "lChapter", j |-> JsonProp(m.lChapter)],
        [k |-> "title", j |-> JsonProp(m.title)],
        [k |-> "subtitle", j |-> JsonProp(m.subtitle)],
        [k |-> "hasStateVariables", j |-> JsonProp(m.hasStateVariables)],
        [k |-> "stateVariablesUsed", j |->
            IF m.stateVariablesUsed.t = "object" THEN <<"{}">>
            ELSE JsonList(m.stateVariablesUsed, JsonValue)] >>)

JsonDocument(data) ==
    IF "src" \in DOMAIN data THEN Stringify(data.src) ELSE
    JsonObject(<<
        [k |-> "metadata", j |->
            IF data.metadata.t = "undefined" THEN <<>>
            ELSE JsonMetadata(data.metadata)],
        [k |-> "slides", j |->
            IF data.slides.t = "object" THEN <<"{}">>
            ELSE JsonList(data.slides, JsonSlide)] >>)

\* the names the converter of legacy decks looks for
STATE_VARIABLES ==
    <<"STATE_NAME", "STATE_GRANT_PROGRAM", "STATE_TUITION_PUBLIC",
      "STATE_TUITION_COMMUNITY", "MIN_WAGE", "INCOME_TAX_RATE", "SALES_TAX",
      "LOCAL_SALES_TAX_MAX", "COMBINED_SALES_TAX_MAX",
      "PROPERTY_TAX_COUNTY_RATE", "ASSESSMENT_PERCENTAGE",
      "HOMESTEAD_EXEMPTION", "MEDIAN_HOME_PRICE", "MEDIAN_RENT",
      "AVG_MORTGAGE_RATE_30YR", "REGISTRATION_INITIAL", "REGISTRATION_ANNUAL",
      "GAS_PRICE_CURRENT", "INSURANCE_AVG_TEEN", "AVG_AUTO_LOAN_RATE_NEW",
      "AVG_AUTO_LOAN_RATE_USED", "UNEMPLOYMENT_RATE", "MAJOR_INDUSTRIES",
      "MAJOR_CITY", "MAJOR_CITY_1", "MAJOR_CITY_2", "AVG_MONTHLY_FEE",
      "AVG_OVERDRAFT_FEE", "LOCAL_CREDIT_UNION_NAME", "DMV_URL",
      "TAX_AUTHORITY_URL", "LABOR_DEPARTMENT_URL", "CONSUMER_PROTECTION_URL">>

\* the atoms that match [A-Z_]+
UpperCaseNames ==
    Keys \cup CalculatedFieldSet
         \cup {"STATE_CHAPTER", "CHAPTER_TITLE", "CHAPTER_SUBTITLE"}
         \cup {STATE_VARIABLES[i] : i \in 1..Len(STATE_VARIABLES)}

\* the places of s where /\{\{([A-Z_]+)\}\}/ matches
PlaceholderMatches(s) ==
    SelectSeq([i \in 1..Len(s) |-> i],
              LAMBDA i : /\ i + 2 <= Len(s)
                         /\ s[i] = "{{"
                         /\ s[i + 1] \in UpperCaseNames
                         /\ s[i + 2] = "}}")

\* foundVars: the names matched, each once, in the order of first match
FoundVars(s) ==
    LET at == PlaceholderMatches(s)
        first == SelectSeq([k \in 1..Len(at) |-> k],
                     LAMBDA k : \A h \in 1..(k - 1) : s[at[h] + 1] # s[at[k] + 1])
    IN  [k \in 1..Len(first) |-> s[at[first[k]] + 1]]

Warning(msg, index, name) == [msg |-> msg, index |-> index, name |-> name]

\* the checks of the metadata object without the one of the title
MetadataErrors_TitleUnchecked(data) ==
    IF data.metadata.t # "object" THEN <<"Missing metadata object">>
    ELSE (IF ~Truthy(data.metadata.lChapter)
          THEN <<"Missing metadata.lChapter">> ELSE <<>>)
         \o (IF data.metadata.hasStateVariables = Undefined
             THEN <<"Missing metadata.hasStateVariables">> ELSE <<>>)

\* the checks of the metadata object
MetadataErrors(data) ==
    IF data.metadata.t # "object" THEN <<"Missing metadata object">>
    ELSE (IF ~Truthy(data.metadata.lChapter)
          THEN <<"Missing metadata.lChapter">> ELSE <<>>)
         \o (IF ~Truthy(data.metadata.title)
             THEN <<"Missing metadata.title">> ELSE <<>>)
         \o (IF data.metadata.hasStateVariables = Undefined
             THEN <<"Missing metadata.hasStateVariables">> ELSE <<>>)

SlidesErrors(data) ==
    IF data.slides.t # "array" THEN <<"Missing or invalid slides array">>
    ELSE <<>>

\* the warnings of the loop over the slides; index counts from 0
SlideWarnings(data) ==
    IF data.slides.t # "array" THEN <<>>
    ELSE Concat([i \in 1..Len(data.slides.a) |->
            (IF ~Truthy(data.slides.a[i].number)
             THEN <<Warning("missing number", i - 1, "")>> ELSE <<>>)
            \o (IF ~Truthy(data.slides.a[i].type)
                THEN <<Warning("missing type", i - 1, "")>> ELSE <<>>)
            \o (IF data.slides.a[i].content.t # "object"
                THEN <<Warning("missing content", i - 1, "")>> ELSE <<>>)])

\* the warnings of the placeholder check, made when hasStateVariables holds
VariableWarnings(data) ==
    IF data.metadata.t = "object" /\ Truthy(data.metadata.hasStateVariables)
    THEN LET foundVars == FoundVars(JsonDocument(data))
             used == data.metadata.stateVariablesUsed.a
             declaredVars == {used[i].s[1] : i \in {h \in 1..Len(used) :
                                    used[h].t = "string" /\ Len(used[h].s) = 1}}
         IN  (IF foundVars = <<>>
              THEN <<Warning("hasStateVariables is true but no {{PLACEHOLDERS}} found", -1, "")>>
              ELSE <<>>)
             \o Concat([k \in 1..Len(foundVars) |->
                    IF foundVars[k] \notin declaredVars
                       /\ foundVars[k] \notin CalculatedFieldSet
                    THEN <<Warning("used but not declared in stateVariablesUsed",
                                   -1, foundVars[k])>>
                    ELSE <<>>])
    ELSE <<>>

\* what makes the try block throw: a file that cannot be read or parsed, a
\* document that is null, a slide that is null, a stateVariablesUsed that
\* new Set cannot iterate
Throws(f) ==
    \/ ~f.there
    \/ ~f.ok
    \/ f.data.t = "null"
    \/ /\ f.data.slides.t = "array"
       /\ \E i \in 1..Len(f.data.slides.a) : f.data.slides.a[i].t = "null"
    \/ /\ f.data.metadata.t = "object"
       /\ Truthy(f.data.metadata.hasStateVariables)
       /\ f.data.metadata.stateVariablesUsed.t = "object"

\* validateContentJSON failing a document that has warnings
validateContentJSON_WarningsFail(f) ==
    IF Throws(f)
    THEN [errors |-> <<>>, warnings |-> <<>>, isValid |-> FALSE]
    ELSE [errors |-> MetadataErrors(f.data) \o SlidesErrors(f.data),
          warnings |-> SlideWarnings(f.data) \o VariableWarnings(f.data),
          isValid |-> /\ MetadataErrors(f.data) \o SlidesErrors(f.data) = <<>>
                      /\ SlideWarnings(f.data) \o VariableWarnings(f.data) = <<>>]

\* errors and warnings as printed, and the value returned; the catch block
\* prints neither list
validateContentJSON(f) ==
    IF Throws(f)
    THEN [errors |-> <<>>, warnings |-> <<>>, isValid |-> FALSE]
    ELSE [errors |-> MetadataErrors(f.data) \o SlidesErrors(f.data),
          warnings |-> SlideWarnings(f.data) \o VariableWarnings(f.data),
          isValid |-> MetadataErrors(f.data) \o SlidesErrors(f.data) = <<>>]

\* a JSON document that is a number: it has no properties
NumberDocument == [t |-> "number", metadata |-> NoMetadata, slides |-> NoList]

\* metadata of documents to validate
Metadatas ==
    { NoMetadata }
    \cup { [NoMetadata EXCEPT !.t = "object", !.lChapter = c, !.title = ti,
                             !.hasStateVariables = h, !.stateVariablesUsed = u] :
             c \in {Undefined, Str(<<"L-", "03">>)},
             ti \in {Undefined, Str(<<>>), Str(<<"Income and Taxes">>)},
             h \in {Undefined, Null, Bool(FALSE), Bool(TRUE)},
             u \in {NoList, NotAList, List(<<>>), List(<<Str(<<"A">>)>>),
                    List(<<Str(<<"A">>), Str(<<"B">>)>>)} }

\* slides of documents to validate: with {{A}}, with {{B}} and a calculated
\* field, with {{lower}} alone, without number, type and content, and null
ValidatedSlides ==
    { BulletSlide,
      Slide(Num(100), Str(<<"content">>),
            SlideContent(Str(Placeholder("CALCULATED_STATE_TAX_MONTHLY")
                             \o <<" of ">> \o Placeholder("B")),
                         Str(<<"scenario-layout">>), EmptyData)),
      Slide(Num(200), Str(<<"content">>),
            SlideContent(Str(Placeholder("lower")), Str(<<"mystery">>), NoData)),
      Slide(Num(0), Undefined, NoSlideContent),
      NullSlide }

Documents ==
    { NoContent, NumberDocument }
    \cup { Content(m, sl) :
             m \in Metadatas,
             sl \in {NoList, NotAList}
                    \cup {List(l) : l \in ListsOf(ValidatedSlides, MaxItems)} }

InitValidate ==
    /\ op = "init"
    /\ template = Undefined
    /\ stateVars = <<>>
    /\ contentData = NoContent
    /\ result = Undefined
    /\ again = Undefined
    /\ baseAmount = DefaultBaseAmount
    /\ halfUp = TRUE
    /\ calc = NoCalc
    /\ NoRun
    /\ NoRender
    /\ NoConvert
    /\ NoBatch
    /\ file \in {NoFile, BadFile} \cup {File(data) : data \in Documents}
    /\ errors = <<>>
    /\ warned = <<>>
    /\ isValid = FALSE

\* main: process.exit(isValid ? 0 : 1)
ValidateContentJSON ==
    /\ op = "init"
    /\ op' = "validateContentJSON"
    /\ errors' = validateContentJSON(file).errors
    /\ warned' = validateContentJSON(file).warnings
    /\ isValid' = validateContentJSON(file).isValid
    /\ exitCode' = IF isValid' THEN 0 ELSE 1
    /\ UNCHANGED <<template, stateVars, contentData, result, again,
                   baseAmount, halfUp, calc, fs, state, lChapter, pc, loads,
                   mappingContent, mapping, warnings, written, file>>
    /\ UNCHANGED renderVars
    /\ UNCHANGED convertVars
    /\ UNCHANGED batchVars

NextValidate == ValidateContentJSON

SpecValidate == InitValidate /\ [][NextValidate]_vars

----------------------------------------------------------------------------
(* The converter of legacy decks.  The parsed document is a tree of        *)
(* elements; an element has a tag, the names of its class attribute, the   *)
(* atoms of its style attribute, the font size of its style in px (0 when  *)
(* it has none), its own text and its child elements.  A node is an        *)
(* element with the class names of its ancestors.                          *)

RootNode(el) == [el |-> el, anc |-> {}]

ClassNames(el) == {el.classList[i] : i \in 1..Len(el.classList)}

\* the nodes below a node, in document order
RECURSIVE Descendants(_)
Descendants(node) ==
    Concat([i \in 1..Len(node.el.kids) |->
        LET kid == [el |-> node.el.kids[i],
                    anc |-> node.anc \cup ClassNames(node.el)]
        IN  <<kid>> \o Descendants(kid)])

\* a selector: the tags it allows (none named: all), the classes it asks
\* for, the class an ancestor must have ('.a .b'), and the class no
\* ancestor may have (':not(.a p)'); "" where it names none
Selector(tags, classes, within, notWithin) ==
    [tags |-> tags, classes |-> classes, within |-> within,
     notWithin |-> notWithin]

ByClass(c) == Selector({}, {c}, "", "")

ByTag(tag) == Selector({tag}, {}, "", "")

Matches(node, sel) ==
    /\ sel.tags = {} \/ node.el.tag \in sel.tags
    /\ sel.classes \subseteq ClassNames(node.el)
    /\ sel.within = "" \/ sel.within \in node.anc
    /\ sel.notWithin = "" \/ sel.notWithin \notin node.anc

querySelectorAll(node, sel) ==
    SelectSeq(Descendants(node), LAMBDA d : Matches(d, sel))

\* element?.querySelector(sel): null without a match or without an element
querySelector(node, sel) ==
    IF querySelectorAll(node, sel) = <<>> THEN NoNode
    ELSE Head(querySelectorAll(node, sel))

\* the text of an element and of all below it
RECURSIVE TextOf(_)
TextOf(el) ==
    el.text \o Concat([i \in 1..Len(el.kids) |-> TextOf(el.kids[i])])

\* element?.textContent
textContent(node) ==
    IF node.el.t = "null" THEN Undefined ELSE Str(TextOf(node.el))

\* the serialization of text: & is written as an entity
EscapeText(s) ==
    [i \in 1..Len(s) |-> IF s[i] = "&" THEN "&amp;" ELSE s[i]]

\* element.innerHTML; a child is written with its tag and class attribute
RECURSIVE InnerHTML(_)
InnerHTML(el) ==
    EscapeText(el.text)
    \o Concat([i \in 1..Len(el.kids) |->
          <<"<" \o el.kids[i].tag>>
          \o (IF el.kids[i].classList = <<>> THEN <<>>
              ELSE <<" class=\"">> \o el.kids[i].classList \o <<"\"">>)
          \o <<">">> \o InnerHTML(el.kids[i])
          \o <<"</" \o el.kids[i].tag \o ">">>])

IsSpace(c) == c \in {" ", "\n", "\t"}

\* s.replace(/\s+/g, ' ')
RECURSIVE CollapseSpaces(_)
CollapseSpaces(s) ==
    IF s = <<>> THEN <<>>
    ELSE IF IsSpace(Head(s))
         THEN IF Len(s) > 1 /\ IsSpace(s[2]) THEN CollapseSpaces(Tail(s))
              ELSE <<" ">> \o CollapseSpaces(Tail(s))
         ELSE <<Head(s)>> \o CollapseSpaces(Tail(s))

cleanText(text) ==
    IF ~Truthy(text) THEN Str(<<>>)
    ELSE Str(Trim(CollapseSpaces(text.s)))

extractInnerHTML(node) ==
    IF node.el.t = "null" THEN Str(<<>>)
    ELSE Str(Trim(CollapseSpaces(InnerHTML(node.el))))

\* the digit strings of the decks of this model
Numerals == {"1", "2", "3", "7", "01", "02", "03", "12"}

NumeralValue(d) ==
    CASE d \in {"1", "01"} -> 1 [] d \in {"2", "02"} -> 2
      [] d \in {"3", "03"} -> 3
      [] d = "7" -> 7 [] d = "12" -> 12

\* parseInt(text) || fallback: the leading digits after white space,
\* fallback when there are none (NaN), when they are 0, or without text
ParseIntOr(text, fallback) ==
    IF text.t # "string" THEN Num(100 * fallback)
    ELSE LET lead == IF \E i \in 1..Len(text.s) : ~IsSpace(text.s[i])
                     THEN text.s[CHOOSE i \in 1..Len(text.s) :
                                    /\ ~IsSpace(text.s[i])
                                    /\ \A h \in 1..(i - 1) : IsSpace(text.s[h])]
                     ELSE ""
         IN  IF lead \in Numerals THEN Num(100 * NumeralValue(lead))
             ELSE Num(100 * fallback)

\* Characters outside ASCII are atoms named by their code point.  The
\* icon strings of the layout extractors:
Icons ==
    [bulb |-> <<"U+00F0", "U+0178", "U+2019", "U+00A1">>,
     target |-> <<"U+00F0", "U+0178", "U+017D", "U+00AF">>,
     calendar |-> <<"U+00F0", "U+0178", "U+201C", "U+2026">>,
     person |-> <<"U+00F0", "U+0178", "U+2018", "U+00A4">>,
     clipboard |-> <<"U+00F0", "U+0178", "U+201C", "U+2039">>]

\* the character classes of the icon patterns: of the highlight box, of
\* the column title where it is matched and where it is replaced, and of
\* the activity title
IconChars ==
    [highlight |->
        {"U+00F0", "U+0178", "U+2019", "U+00A1", "U+017D", "U+00AF", "U+201C",
         "U+2026", "U+201D", "U+201E", "U+00B0", "U+0160"},
     columnMatch |->
        {"U+00F0", "U+0178", "U+017D", "U+2019", "U+00B3", "U+201C", "U+2039",
         "U+0161", "U+20AC", "U+00E2", "U+0153", "!"},
     columnReplace |->
        {"U+00F0", "U+0178", "U+017D", "U+2019", "U+00B3", "U+201C", "U+2039",
         "U+0161", "U+20AC"},
     activity |->
        {"U+00F0", "U+0178", "U+201C", "U+2039", "U+00E2", "U+0153", "U+00EF",
         "U+00B8", "U+0160"}]

\* text.match(/^([chars])\s*/): match[1], or null
IconMatch(s, chars) ==
    IF s # <<>> /\ Head(s) \in chars THEN Str(<<Head(s)>>) ELSE Null

RECURSIVE DropSpaces(_)
DropSpaces(s) ==
    IF s # <<>> /\ IsSpace(Head(s)) THEN DropSpaces(Tail(s)) ELSE s

\* text.replace(/^[chars]\s*/, '')
StripIcon(s, chars) ==
    IF s # <<>> /\ Head(s) \in chars THEN DropSpaces(Tail(s)) ELSE s

\* classList.contains(c) of element?.classList
HasClass(node, c) == node.el.t # "null" /\ c \in ClassNames(node.el)

\* the items Item(node, index) of the nodes ns; index counts from 0
MapNodes(ns, Item(_, _)) == JsonArray([i \in 1..Len(ns) |-> Item(ns[i], i - 1)])

\* className.includes(colour): the colour is one of the class names (a
\* class name is an atom, a colour inside a longer name is not modelled)
determineHeaderColor(headerElement) ==
    IF headerElement.el.t = "null" THEN Str(<<"purple">>)
    ELSE IF "teal" \in ClassNames(headerElement.el) THEN Str(<<"teal">>)
         ELSE IF "blue" \in ClassNames(headerElement.el) THEN Str(<<"blue">>)
              ELSE Str(<<"purple">>)

parseTitleSlide(slideElement) ==
    LET h1 == querySelector(slideElement, ByTag("h1"))
        subtitle == querySelector(slideElement, ByClass("subtitle"))
        size == h1.el.fontSize
        titleSize == IF h1.el.t # "null" /\ size # 0
                     THEN IF size <= 64 THEN "small"
                          ELSE IF size <= 80 THEN "medium" ELSE "large"
                     ELSE "large"
    IN  JsonTree(<<
            Prop("type", Str(<<"title">>)),
            Prop("content", JsonTree(<<
                Prop("title", cleanText(textContent(h1))),
                Prop("titleSize", Str(<<titleSize>>)),
                Prop("subtitle", cleanText(textContent(subtitle))) >>)) >>)

parseHookSlide(slideElement) ==
    LET label == querySelector(slideElement, ByClass("label"))
        question == querySelector(slideElement, ByClass("question"))
    IN  JsonTree(<<
            Prop("type", Str(<<"hook">>)),
            Prop("content", JsonTree(<<
                Prop("label", OrElse(cleanText(textContent(label)),
                                     Str(<<"Essential Question">>))),
                Prop("question", extractInnerHTML(question)) >>)) >>)

\* style.includes(word): the word is one of the atoms of the style
parseDiscussionSlide(slideElement) ==
    LET badge == querySelector(slideElement, ByClass("badge"))
        question == querySelector(slideElement, ByClass("question"))
        style == slideElement.el.style
        variant == IF \E i \in 1..Len(style) : style[i] \in {"primary", "6D29D8"}
                   THEN "purple" ELSE "teal"
    IN  JsonTree(<<
            Prop("type", Str(<<"discussion">>)),
            Prop("variant", Str(<<variant>>)),
            Prop("content", JsonTree(<<
                Prop("badge", OrElse(cleanText(textContent(badge)),
                                     Str(<<"Discussion">>))),
                Prop("question", extractInnerHTML(question)) >>)) >>)

parseClosingSlide(slideElement) ==
    LET tagline == querySelector(slideElement, ByClass("tagline"))
        website == querySelector(slideElement, ByClass("website"))
        copyright == querySelector(slideElement, ByClass("copyright"))
    IN  JsonTree(<<
            Prop("type", Str(<<"closing">>)),
            Prop("content", JsonTree(<<
                Prop("tagline", OrElse(cleanText(textContent(tagline)),
                    Str(<<"Building Financial Futures, One Lesson at a Time">>))),
                Prop("website", OrElse(cleanText(textContent(website)),
                    Str(<<"www.pflacademy.co">>))),
                Prop("copyright", OrElse(cleanText(textContent(copyright)),
                    Str(<<"U+00C2", "U+00A9",
                          " 2025 PFL Academy. All rights reserved.">>))) >>)) >>)

detectLayout(bodyElement) ==
    LET has(c) == querySelector(bodyElement, ByClass(c)).el.t # "null"
    IN  IF bodyElement.el.t = "null" THEN "generic"
        ELSE IF has("objectives-expanded") THEN "objectives-expanded"
        ELSE IF has("vocab-container") THEN "vocab-container"
        ELSE IF has("balanced-layout") THEN "balanced-layout"
        ELSE IF has("comparison-grid") THEN "comparison-grid"
        ELSE IF has("scenario-layout") THEN "scenario-layout"
        ELSE IF has("takeaway-grid") THEN "takeaway-grid"
        ELSE IF has("activity-layout") THEN "activity-layout"
        ELSE IF has("check-grid") THEN "check-grid"
        ELSE IF has("concept-full") THEN "concept-full"
        ELSE IF has("priority-list") THEN "priority-list"
        ELSE "generic"

extractObjectivesLayout(body) ==
    JsonTree(<<Prop("objectives",
        MapNodes(querySelectorAll(body, ByClass("objective-card")),
            LAMBDA card, index : JsonTree(<<
                Prop("number",
                     ParseIntOr(textContent(querySelector(card, ByClass("number"))),
                                index + 1)),
                Prop("verb",
                     cleanText(textContent(querySelector(card, ByTag("h3"))))),
                Prop("description",
                     cleanText(textContent(querySelector(card, ByTag("p"))))) >>)))>>)

extractVocabLayout(body) ==
    JsonTree(<<Prop("terms",
        MapNodes(querySelectorAll(body, ByClass("vocab-row")),
            LAMBDA row, index : JsonTree(<<
                Prop("term", cleanText(textContent(querySelector(row,
                        Selector({}, {"term"}, "vocab-term-box", ""))))),
                Prop("definition", cleanText(textContent(querySelector(row,
                        Selector({"p"}, {}, "vocab-def-box", ""))))),
                Prop("example", cleanText(textContent(querySelector(row,
                        Selector({"p"}, {}, "vocab-example-box", ""))))) >>)))>>)

extractPriorityItems(list) ==
    MapNodes(querySelectorAll(list, ByClass("priority-item")),
        LAMBDA item, index :
            LET rank == querySelector(item, ByClass("rank"))
                rankClass == IF HasClass(rank, "second") THEN "second"
                             ELSE IF HasClass(rank, "third") THEN "third"
                             ELSE IF HasClass(rank, "fourth") THEN "fourth"
                             ELSE "first"
            IN  JsonTree(<<
                    Prop("rank", Num(100 * (index + 1))),
                    Prop("rankClass", Str(<<rankClass>>)),
                    Prop("title",
                         cleanText(textContent(querySelector(item, ByTag("h4"))))),
                    Prop("description",
                         cleanText(textContent(querySelector(item, ByTag("p"))))) >>))

\* s.includes(p) for strings of atoms
Includes(s, p) == IndexOf(s, p) # 0

extractBalancedLayout(body) ==
    LET layout == querySelector(body, ByClass("balanced-layout"))
        contentPanel == querySelector(layout, ByClass("content-panel"))
        statsPanel == querySelector(layout, ByClass("stats-panel"))
        texts == [p \in 1..Len(querySelectorAll(contentPanel,
                                   Selector({"p"}, {}, "", "highlight-box"))) |->
                    extractInnerHTML(querySelectorAll(contentPanel,
                        Selector({"p"}, {}, "", "highlight-box"))[p])]
        highlightBox == querySelector(contentPanel, ByClass("highlight-box"))
        text == extractInnerHTML(querySelector(highlightBox, ByTag("p"))).s
        infoCard == querySelector(statsPanel, ByClass("info-card"))
        priorityList == querySelector(statsPanel, ByClass("priority-list"))
        leftPanel ==
            IF contentPanel.el.t = "null"
            THEN JsonTree(<<Prop("title", Str(<<>>)),
                            Prop("paragraphs", JsonArray(<<>>)),
                            Prop("highlightBox", Null)>>)
            ELSE JsonTree(<<
                    Prop("title", cleanText(textContent(
                                      querySelector(contentPanel, ByTag("h3"))))),
                    Prop("paragraphs", JsonArray(SelectSeq(texts, LAMBDA x :
                        /\ x.s # <<>>
                        /\ ~Includes(x.s, Icons.bulb)
                        /\ ~Includes(x.s, Icons.target)
                        /\ ~Includes(x.s, Icons.calendar)))),
                    Prop("highlightBox",
                        IF highlightBox.el.t = "null" THEN Null
                        ELSE JsonTree(<<
                                Prop("icon", OrElse(IconMatch(text, IconChars.highlight),
                                                    Str(Icons.bulb))),
                                Prop("text", Str(StripIcon(text, IconChars.highlight)))
                             >>)) >>)
        rightPanel ==
            IF statsPanel.el.t = "null"
            THEN JsonTree(<<Prop("stats", JsonArray(<<>>)), Prop("infoCard", Null)>>)
            ELSE JsonTree(<<
                    Prop("stats",
                        MapNodes(querySelectorAll(statsPanel, ByClass("stat-card")),
                            LAMBDA card, index : JsonTree(<<
                                Prop("value", cleanText(textContent(
                                    querySelector(card, ByClass("number"))))),
                                Prop("label", cleanText(textContent(
                                    querySelector(card, ByClass("label"))))),
                                Prop("color", Str(<<
                                    IF HasClass(card, "purple") THEN "purple"
                                    ELSE IF HasClass(card, "green") THEN "green"
                                    ELSE IF HasClass(card, "rose") THEN "rose"
                                    ELSE "teal">>)) >>))),
                    Prop("infoCard",
                        IF infoCard.el.t = "null" THEN Null
                        ELSE JsonTree(<<
                                Prop("title", cleanText(textContent(
                                    querySelector(infoCard, ByTag("h4"))))),
                                Prop("color", Str(<<
                                    IF HasClass(infoCard, "blue") THEN "blue"
                                    ELSE IF HasClass(infoCard, "green") THEN "green"
                                    ELSE "amber">>)),
                                Prop("items",
                                    MapNodes(querySelectorAll(infoCard, ByTag("li")),
                                        LAMBDA li, index : cleanText(textContent(li))))
                             >>)) >>
                    \o (IF priorityList.el.t = "null" THEN <<>>
                        ELSE <<Prop("priorityList",
                                    extractPriorityItems(priorityList))>>))
    IN  IF layout.el.t = "null" THEN JsonTree(<<>>)
        ELSE JsonTree(<<Prop("leftPanel", leftPanel),
                        Prop("rightPanel", rightPanel)>>)

extractColumn(col) ==
    IF col.el.t = "null"
    THEN JsonTree(<<Prop("icon", Str(<<>>)), Prop("title", Str(<<>>)),
                    Prop("items", JsonArray(<<>>))>>)
    ELSE LET titleText ==
                 cleanText(textContent(querySelector(col, ByTag("h3")))).s
         IN  JsonTree(<<
                 Prop("icon", OrElse(IconMatch(titleText, IconChars.columnMatch),
                                     Str(<<>>))),
                 Prop("title", Str(StripIcon(titleText, IconChars.columnReplace))),
                 Prop("items", MapNodes(querySelectorAll(col, ByTag("li")),
                     LAMBDA li, index : cleanText(textContent(li)))) >>)

extractComparisonLayout(body) ==
    LET grid == querySelector(body, ByClass("comparison-grid"))
    IN  IF grid.el.t = "null" THEN JsonTree(<<>>)
        ELSE JsonTree(<<
                Prop("leftColumn", extractColumn(querySelector(grid,
                         Selector({}, {"compare-column", "left"}, "", "")))),
                Prop("rightColumn", extractColumn(querySelector(grid,
                         Selector({}, {"compare-column", "right"}, "", "")))) >>)

extractScenarioLayout(body) ==
    LET layout == querySelector(body, ByClass("scenario-layout"))
        scenarioCard == querySelector(layout, ByClass("scenario-card"))
        outcomes == querySelector(layout, ByClass("scenario-outcomes"))
        nameDiv == querySelector(scenarioCard, ByClass("name"))
        icon == OrElse(cleanText(textContent(querySelector(nameDiv, ByClass("icon")))),
                       Str(Icons.person))
        scenario ==
            IF scenarioCard.el.t = "null"
            THEN JsonTree(<<Prop("icon", Str(<<>>)), Prop("name", Str(<<>>)),
                            Prop("paragraphs", JsonArray(<<>>))>>)
            ELSE JsonTree(<<
                    Prop("icon", icon),
                    Prop("name", Str(Trim(StringReplace(
                        cleanText(textContent(nameDiv)).s, icon.s, <<>>)))),
                    Prop("paragraphs",
                        MapNodes(querySelectorAll(scenarioCard, ByTag("p")),
                            LAMBDA p, index : extractInnerHTML(p))) >>)
        outcomesList ==
            MapNodes(querySelectorAll(outcomes, ByClass("outcome-box")),
                LAMBDA box, index : JsonTree(<<
                    Prop("type", Str(<<IF HasClass(box, "before") THEN "before"
                                       ELSE IF HasClass(box, "after") THEN "after"
                                       ELSE "neutral">>)),
                    Prop("label", cleanText(textContent(
                                      querySelector(box, ByClass("label"))))),
                    Prop("value", cleanText(textContent(
                                      querySelector(box, ByClass("value"))))),
                    Prop("detail", cleanText(textContent(
                                       querySelector(box, ByClass("detail"))))) >>))
    IN  IF layout.el.t = "null" THEN JsonTree(<<>>)
        ELSE JsonTree(<<Prop("scenario", scenario),
                        Prop("outcomes", outcomesList)>>)

extractTakeawayLayout(body) ==
    JsonTree(<<Prop("takeaways",
        MapNodes(querySelectorAll(body, ByClass("takeaway-item")),
            LAMBDA item, index : JsonTree(<<
                Prop("number",
                     ParseIntOr(textContent(querySelector(item, ByClass("number"))),
                                index + 1)),
                Prop("title",
                     cleanText(textContent(querySelector(item, ByTag("h4"))))),
                Prop("description",
                     cleanText(textContent(querySelector(item, ByTag("p"))))) >>)))>>)

\* parts.join(' ')
RECURSIVE JoinSpace(_)
JoinSpace(parts) ==
    IF parts = <<>> THEN <<>>
    ELSE IF Len(parts) = 1 THEN Head(parts)
         ELSE Head(parts) \o <<" ">> \o JoinSpace(Tail(parts))

extractActivityLayout(body) ==
    LET layout == querySelector(body, ByClass("activity-layout"))
        mainDiv == querySelector(layout, ByClass("activity-main"))
        stepsDiv == querySelector(layout, ByClass("activity-steps"))
        titleText == cleanText(textContent(querySelector(mainDiv, ByTag("h3")))).s
        paragraphs == querySelectorAll(mainDiv, ByTag("p"))
        main ==
            IF mainDiv.el.t = "null"
            THEN JsonTree(<<Prop("icon", Str(Icons.clipboard)),
                            Prop("title", Str(<<>>)),
                            Prop("description", Str(<<>>))>>)
            ELSE JsonTree(<<
                    Prop("icon", OrElse(IconMatch(titleText, IconChars.activity),
                                        Str(Icons.clipboard))),
                    Prop("title", Str(StripIcon(titleText, IconChars.activity))),
                    Prop("description", Str(JoinSpace(
                        [i \in 1..Len(paragraphs) |->
                            extractInnerHTML(paragraphs[i]).s]))) >>)
        steps == MapNodes(querySelectorAll(stepsDiv, ByClass("activity-step")),
                     LAMBDA step, index :
                         cleanText(textContent(querySelector(step, ByTag("p")))))
    IN  IF layout.el.t = "null" THEN JsonTree(<<>>)
        ELSE JsonTree(<<Prop("main", main), Prop("steps", steps)>>)

extractCheckLayout(body) ==
    JsonTree(<<Prop("questions",
        MapNodes(querySelectorAll(body, ByClass("check-item")),
            LAMBDA item, index : JsonTree(<<
                Prop("number", Num(100 * (index + 1))),
                Prop("question",
                     cleanText(textContent(querySelector(item, ByTag("p"))))) >>)))>>)

extractConceptLayout(body) ==
    LET concept == querySelector(body, ByClass("concept-full"))
        keyPoint == querySelector(concept, ByClass("key-point"))
    IN  IF concept.el.t = "null" THEN JsonTree(<<>>)
        ELSE JsonTree(<<
                Prop("title", cleanText(textContent(
                                  querySelector(concept, ByTag("h3"))))),
                Prop("paragraphs",
                    MapNodes(querySelectorAll(concept,
                                 Selector({"p"}, {}, "", "key-point")),
                        LAMBDA p, index : extractInnerHTML(p))),
                Prop("bulletPoints",
                    MapNodes(querySelectorAll(concept, ByTag("li")),
                        LAMBDA li, index : extractInnerHTML(li))) >>
                \o (IF keyPoint.el.t = "null" THEN <<>>
                    ELSE <<Prop("keyPoint", JsonTree(<<
                              Prop("text", extractInnerHTML(
                                  querySelector(keyPoint, ByTag("p"))))>>))>>))

extractPriorityLayout(body) ==
    LET list == querySelector(body, ByClass("priority-list"))
    IN  IF list.el.t = "null" THEN JsonTree(<<>>)
        ELSE JsonTree(<<Prop("items", extractPriorityItems(list))>>)

extractGenericLayout(body) ==
    JsonTree(<<
        Prop("paragraphs", MapNodes(querySelectorAll(body, ByTag("p")),
            LAMBDA p, index : extractInnerHTML(p))),
        Prop("lists", MapNodes(querySelectorAll(body, Selector({"ul", "ol"}, {}, "", "")),
            LAMBDA list, index :
                MapNodes(querySelectorAll(list, ByTag("li")),
                    LAMBDA li, at : extractInnerHTML(li)))) >>)

extractLayoutData(bodyElement, layout) ==
    IF bodyElement.el.t = "null" THEN JsonTree(<<>>)
    ELSE CASE layout = "objectives-expanded" -> extractObjectivesLayout(bodyElement)
           [] layout = "vocab-container" -> extractVocabLayout(bodyElement)
           [] layout = "balanced-layout" -> extractBalancedLayout(bodyElement)
           [] layout = "comparison-grid" -> extractComparisonLayout(bodyElement)
           [] layout = "scenario-layout" -> extractScenarioLayout(bodyElement)
           [] layout = "takeaway-grid" -> extractTakeawayLayout(bodyElement)
           [] layout = "activity-layout" -> extractActivityLayout(bodyElement)
           [] layout = "check-grid" -> extractCheckLayout(bodyElement)
           [] layout = "concept-full" -> extractConceptLayout(bodyElement)
           [] layout = "priority-list" -> extractPriorityLayout(bodyElement)
           [] OTHER -> extractGenericLayout(bodyElement)

parseContentSlide(slideElement) ==
    LET header == querySelector(slideElement, ByClass("slide-header"))
        body == querySelector(slideElement, ByClass("slide-body"))
        headerTitle == querySelector(header, ByTag("h2"))
        layout == detectLayout(body)
    IN  JsonTree(<<
            Prop("type", Str(<<"content">>)),
            Prop("headerColor", determineHeaderColor(header)),
            Prop("content", JsonTree(<<
                Prop("headerTitle", cleanText(textContent(headerTitle))),
                Prop("layout", Str(<<layout>>)),
                Prop("layoutData", extractLayoutData(body, layout)) >>)) >>)

\* the names of STATE_VARIABLES that are part of a longer name
PartOf(name) ==
    CASE name = "SALES_TAX" -> {"LOCAL_SALES_TAX_MAX", "COMBINED_SALES_TAX_MAX"}
      [] name = "MAJOR_CITY" -> {"MAJOR_CITY_1", "MAJOR_CITY_2"}
      [] OTHER -> {}

\* contentStr.includes(`{{${varName}}}`) || contentStr.includes(varName):
\* the name is an atom of the text, or part of one
OccursIn(s, varName) ==
    \E i \in 1..Len(s) : s[i] = varName \/ s[i] \in PartOf(varName)

\* only the names of the list, the {{NAME}} pattern left out
detectStateVariables_KnownOnly(content) ==
    SelectSeq(STATE_VARIABLES, LAMBDA v : OccursIn(Stringify(content), v))

detectStateVariables(content) ==
    LET contentStr == Stringify(content)
        found == SelectSeq(STATE_VARIABLES, LAMBDA v : OccursIn(contentStr, v))
        matches == FoundVars(contentStr)
    IN  found \o SelectSeq(matches, LAMBDA v :
                    \A i \in 1..Len(found) : found[i] # v)

\* title.match(/L-(\d+)/): the digits of the first match, "" without one
ChapterDigits(s) ==
    IF \E i \in 1..(Len(s) - 1) : s[i] = "L-" /\ s[i + 1] \in Numerals
    THEN s[1 + CHOOSE i \in 1..(Len(s) - 1) :
                 /\ s[i] = "L-" /\ s[i + 1] \in Numerals
                 /\ \A h \in 1..(i - 1) : ~(s[h] = "L-" /\ s[h + 1] \in Numerals)]
    ELSE ""

\* digits.padStart(2, '0')
PadStart2(digits) == IF Len(digits) < 2 THEN "0" \o digits ELSE digits

\* the slide numbered by the index itself
SlideData_ZeroBased(slideEl, index) ==
    Spread(JsonTree(<<Prop("number", Num(100 * index))>>),
           parseContentSlide(slideEl))

\* the slide a slide element becomes; index counts from 0
SlideData(slideEl, index) ==
    Spread(JsonTree(<<Prop("number", Num(100 * (index + 1)))>>),
           IF HasClass(slideEl, "slide-title") THEN parseTitleSlide(slideEl)
           ELSE IF HasClass(slideEl, "slide-hook") THEN parseHookSlide(slideEl)
           ELSE IF HasClass(slideEl, "slide-discussion")
                THEN parseDiscussionSlide(slideEl)
           ELSE IF HasClass(slideEl, "slide-closing")
                THEN parseClosingSlide(slideEl)
           ELSE parseContentSlide(slideEl))

\* doc is the node of the document element
convertHtmlToJson(doc) ==
    LET title == OrElse(textContent(querySelector(doc, ByTag("title"))),
                        Str(<<>>)).s
        chapter == IF ChapterDigits(title) # ""
                   THEN Str(<<"L-", PadStart2(ChapterDigits(title))>>)
                   ELSE Str(<<"L-XX">>)
        titleSlide == querySelector(doc, ByClass("slide-title"))
        mainTitle == OrElse(cleanText(textContent(
                                querySelector(titleSlide, ByTag("h1")))),
                            Str(<<>>))
        subtitle == OrElse(cleanText(textContent(
                               querySelector(titleSlide, ByClass("subtitle")))),
                           Str(<<>>))
        slides == MapNodes(querySelectorAll(doc, ByClass("slide")), SlideData)
        Output(has, used) ==
            JsonTree(<<
                Prop("metadata", JsonTree(<<
                    Prop("lChapter", chapter),
                    Prop("title", mainTitle),
                    Prop("subtitle", subtitle),
                    Prop("totalSlides", Num(100 * Len(slides.a))),
                    Prop("hasStateVariables", Bool(has)),
                    Prop("stateVariablesUsed",
                         JsonArray([i \in 1..Len(used) |-> Str(<<used[i]>>)])) >>)),
                Prop("slides", slides) >>)
        found == detectStateVariables(Output(FALSE, <<>>))
    IN  Output(found # <<>>, found)

----------------------------------------------------------------------------
(* The content document the generator and the validator read from the     *)
(* file the converter wrote: JSON.parse of the written text, seen through  *)
(* the properties they read.                                               *)

\* an array property: its items as Item reads them
ReadList(v, Item(_)) ==
    IF v.t = "array" THEN List([i \in 1..Len(v.a) |-> Item(v.a[i])])
    ELSE IF v.t = "undefined" THEN NoList ELSE NotAList

ReadBox(v) ==
    IF v.t = "object"
    THEN [t |-> "object", icon |-> Get(v, "icon"), text |-> Get(v, "text")]
    ELSE NoBox

ReadLayoutData(v) ==
    IF v.t # "object" THEN NoData
    ELSE [t |-> "object",
          objectives |-> ReadList(Get(v, "objectives"), LAMBDA o :
              [number |-> Get(o, "number"), verb |-> Get(o, "verb"),
               description |-> Get(o, "description")]),
          terms |-> ReadList(Get(v, "terms"), LAMBDA o :
              [term |-> Get(o, "term"), definition |-> Get(o, "definition")]),
          columns |-> ReadList(Get(v, "columns"), LAMBDA o :
              [header |-> Get(o, "header"),
               items |-> ReadList(Get(o, "items"), LAMBDA x : x)]),
          title |-> Get(v, "title"),
          description |-> Get(v, "description"),
          highlightBox |-> ReadBox(Get(v, "highlightBox")),
          takeaways |-> ReadList(Get(v, "takeaways"), LAMBDA o :
              [icon |-> Get(o, "icon"), text |-> Get(o, "text")]),
          lines |-> ReadList(Get(v, "lines"), LAMBDA o :
              [type |-> Get(o, "type"),
               isStateVariable |-> Get(o, "isStateVariable"),
               label |-> Get(o, "label"), amount |-> Get(o, "amount")]),
          items |-> ReadList(Get(v, "items"), LAMBDA x : x),
          src |-> v]

ReadContent(v) ==
    IF v.t # "object" THEN NoSlideContent
    ELSE [t |-> "object", headerTitle |-> Get(v, "headerTitle"),
          layout |-> Get(v, "layout"),
          layoutData |-> ReadLayoutData(Get(v, "layoutData"))]

ReadSlide(v) ==
    IF v.t = "null" THEN NullSlide
    ELSE [t |-> "object", number |-> Get(v, "number"), type |-> Get(v, "type"),
          headerColor |-> Get(v, "headerColor"),
          content |-> ReadContent(Get(v, "content"))]

ReadMetadata(v) ==
    IF v.t # "object" THEN NoMetadata
    ELSE [t |-> "object", lChapter |-> Get(v, "lChapter"),
          title |-> Get(v, "title"), subtitle |-> Get(v, "subtitle"),
          hasStateVariables |-> Get(v, "hasStateVariables"),
          stateVariablesUsed |->
              ReadList(Get(v, "stateVariablesUsed"), LAMBDA x : x)]

ReadDocument(v) ==
    [t |-> v.t, metadata |-> ReadMetadata(Get(v, "metadata")),
     slides |-> ReadList(Get(v, "slides"), ReadSlide), src |-> v]

----------------------------------------------------------------------------
(* Legacy decks *)

\* Most slide elements of a deck
MaxSlides == 2

Leaf(tag, classList, text) == El(tag, classList, text, <<>>)

Div(classList, kids) == El("div", classList, <<>>, kids)

\* a content slide with a teal header and the given body
ContentElement(heading, bodyKids) ==
    Div(<<"slide", "slide-content">>,
        <<Div(<<"slide-header", "teal">>, <<Leaf("h2", <<>>, heading)>>),
          Div(<<"slide-body">>, bodyKids)>>)

PlainTitleElement ==
    Div(<<"slide", "slide-title">>,
        <<Leaf("h1", <<>>, <<" ", "Income", "\n", " ", "and Taxes", " ">>),
          Leaf("p", <<"subtitle">>, <<"Money basics">>)>>)

TitleElements ==
    { PlainTitleElement,
      Div(<<"slide", "slide-title">>,
          <<[Leaf("h1", <<>>, <<"Budgets in ">> \o Placeholder("STATE_NAME"))
                EXCEPT !.fontSize = 64]>>),
      Div(<<"slide", "slide-title">>, <<Leaf("h1", <<>>, <<" ">>)>>) }

HookElements ==
    { Div(<<"slide", "slide-hook">>,
          <<Leaf("div", <<"label">>, <<"Think">>),
            El("div", <<"question">>, <<"Why pay ">>,
               <<Leaf("strong", <<>>, <<"taxes">>)>>)>>),
      Div(<<"slide", "slide-hook">>,
          <<Leaf("div", <<"question">>, <<"Save ", "&", " spend">>)>>),
      Div(<<"slide", "slide-hook">>,
          <<Leaf("div", <<"label">>, <<"MIN_WAGE", " in ", "MAJOR_CITY_1">>),
            Leaf("div", <<"question">>,
                 Placeholder("CHAPTER_TITLE") \o <<" pays ">>
                     \o Placeholder("MIN_WAGE") \o <<" or ">>
                     \o Placeholder("CHAPTER_TITLE"))>>) }

DiscussionElements ==
    { [Div(<<"slide", "slide-discussion">>,
           <<Leaf("div", <<"badge">>, <<"Talk">>),
             Leaf("div", <<"question">>,
                  <<"Is ">> \o Placeholder("MIN_WAGE") \o <<" enough?">>)>>)
         EXCEPT !.style = <<"background:", "primary">>] }

ClosingElements ==
    { Div(<<"slide", "slide-closing">>,
          <<Leaf("p", <<"tagline">>, <<"Keep saving">>)>>) }

ContentElements ==
    { ContentElement(<<"Goals">>,
          <<Div(<<"objectives-expanded">>,
                <<Div(<<"objective-card">>,
                      <<Leaf("span", <<"number">>, <<" ", "7">>),
                        Leaf("h3", <<>>, <<"Explain">>),
                        Leaf("p", <<>>, <<"gross pay">>)>>),
                  Div(<<"objective-card">>,
                      <<Leaf("h3", <<>>, <<"Compare">>),
                        Leaf("p", <<>>, <<"net pay">>)>>)>>)>>),
      ContentElement(<<"Words">>,
          <<Div(<<"vocab-container">>,
                <<Div(<<"vocab-row">>,
                      <<Div(<<"vocab-term-box">>,
                            <<Leaf("span", <<"term">>, <<"Budget">>)>>),
                        Div(<<"vocab-def-box">>,
                            <<Leaf("p", <<>>, <<"a plan">>)>>),
                        Div(<<"vocab-example-box">>,
                            <<Leaf("p", <<>>, <<"rent first">>)>>)>>)>>)>>),
      ContentElement(<<"Wages">>,
          <<Div(<<"balanced-layout">>,
                <<Div(<<"content-panel">>,
                      <<Leaf("h3", <<>>, <<"Pay">>),
                        Leaf("p", <<>>, <<"MIN_WAGE", " applies">>),
                        Div(<<"highlight-box">>,
                            <<Leaf("p", <<>>, <<"U+00F0", " ", "Tip">>)>>)>>),
                  Div(<<"stats-panel">>,
                      <<Div(<<"stat-card", "green">>,
                            <<Leaf("div", <<"number">>, <<"12">>),
                              Leaf("div", <<"label">>, <<"months">>)>>),
                        Div(<<"info-card">>,
                            <<Leaf("h4", <<>>, <<"Facts">>),
                              Leaf("li", <<>>, <<"one">>)>>)>>)>>)>>),
      ContentElement(<<"Choices">>,
          <<Div(<<"comparison-grid">>,
                <<Div(<<"compare-column", "left">>,
                      <<Leaf("h3", <<>>, <<"!", " ", "Debit">>),
                        Leaf("li", <<>>, <<"own money">>)>>),
                  Div(<<"compare-column", "right">>,
                      <<Leaf("h3", <<>>, <<"Credit">>),
                        Leaf("li", <<>>, <<"borrowed">>)>>)>>)>>),
      ContentElement(<<"A case">>,
          <<Div(<<"scenario-layout">>,
                <<Div(<<"scenario-card">>,
                      <<El("div", <<"name">>, <<>>,
                           <<Leaf("span", <<"icon">>, <<"U+263A">>),
                             Leaf("span", <<>>, <<" ", "Maya">>)>>),
                        Leaf("p", <<>>, <<"earns wages">>)>>),
                  Div(<<"scenario-outcomes">>,
                      <<Div(<<"outcome-box", "after">>,
                            <<Leaf("div", <<"label">>, <<"Net">>),
                              Leaf("div", <<"value">>, <<"$900">>)>>)>>)>>)>>),
      ContentElement(<<"Remember">>,
          <<Div(<<"takeaway-grid">>,
                <<Div(<<"takeaway-item">>,
                      <<Leaf("h4", <<>>, <<"Save">>),
                        Leaf("p", <<>>, <<"every month">>)>>)>>)>>),
      ContentElement(<<"Try it">>,
          <<Div(<<"activity-layout">>,
                <<Div(<<"activity-main">>,
                      <<Leaf("h3", <<>>, <<"Plan">>),
                        Leaf("p", <<>>, <<"List costs">>)>>),
                  Div(<<"activity-steps">>,
                      <<Div(<<"activity-step">>,
                            <<Leaf("p", <<>>, <<"Add them">>)>>)>>)>>)>>),
      ContentElement(<<"Check">>,
          <<Div(<<"check-grid">>,
                <<Div(<<"check-item">>,
                      <<Leaf("p", <<>>, <<"What is net pay?">>)>>)>>)>>),
      ContentElement(<<"Idea">>,
          <<Div(<<"concept-full">>,
                <<Leaf("h3", <<>>, <<"Interest">>),
                  Leaf("p", <<>>, <<"grows">>),
                  Leaf("li", <<>>, <<"daily">>),
                  Div(<<"key-point">>, <<Leaf("p", <<>>, <<"Start early">>)>>)>>)>>),
      ContentElement(<<"Order">>,
          <<Div(<<"priority-list">>,
                <<Div(<<"priority-item">>,
                      <<Leaf("span", <<"rank", "second">>, <<"2">>),
                        Leaf("h4", <<>>, <<"Rent">>),
                        Leaf("p", <<>>, <<"first bill">>)>>)>>)>>),
      ContentElement(<<"Notes">>,
          <<Leaf("p", <<>>, <<"plain text">>),
            El("ul", <<>>, <<>>, <<Leaf("li", <<>>, <<"a point">>)>>)>>),
      \* an element of class slide alone, without a body
      Div(<<"slide">>, <<Leaf("h2", <<>>, <<"Loose">>)>>) }

SlideElements ==
    TitleElements \cup HookElements \cup DiscussionElements
        \cup ClosingElements \cup ContentElements

\* <title>: with a chapter number, with a padded one, without one, absent
TitleTexts == { <<"L-", "3", " Income">>, <<"L-", "12">>, <<"Income">> }

\* the slide elements that follow the first one
LaterElements == {PlainTitleElement} \cup DiscussionElements \cup ClosingElements

\* the slide elements of a deck: none, or any one followed by later ones
RECURSIVE SlideLists(_)
SlideLists(n) ==
    IF n = 0 THEN {<<>>}
    ELSE SlideLists(n - 1)
         \cup {Append(l, e) :
                 l \in {h \in SlideLists(n - 1) : Len(h) = n - 1},
                 e \in IF n = 1 THEN SlideElements ELSE LaterElements}

LegacyDecks ==
    { El("html", <<>>, <<>>, head \o slides) :
        head \in {<<>>} \cup {<<Leaf("title", <<>>, t)>> : t \in TitleTexts},
        slides \in SlideLists(MaxSlides) }

\* the state data a converted deck is rendered with
ConvertedVarSets ==
    { <<>>, <<[k |-> "MIN_WAGE", v |-> Str(<<"$7.25">>)]>> }

InitConvert ==
    /\ op = "init"
    /\ template = Undefined
    /\ stateVars \in ConvertedVarSets
    /\ contentData = NoContent
    /\ result = Undefined
    /\ again = Undefined
    /\ baseAmount = DefaultBaseAmount
    /\ halfUp = TRUE
    /\ calc = NoCalc
    /\ NoRun
    /\ NoRender
    /\ NoValidate
    /\ dom \in {RootNode(d) : d \in LegacyDecks}
    /\ jsonOutput = Undefined
    /\ fragments = <<>>
    /\ NoBatch

\* the converter turns the deck into a content document
ConvertHtmlToJson ==
    /\ op = "init"
    /\ dom # NoNode
    /\ op' = "convertHtmlToJson"
    /\ jsonOutput' = convertHtmlToJson(dom)
    /\ UNCHANGED <<template, stateVars, contentData, result, again,
                   baseAmount, halfUp, calc, dom, fragments>>
    /\ UNCHANGED runVars
    /\ UNCHANGED renderVars
    /\ UNCHANGED validateVars
    /\ UNCHANGED batchVars

\* the generator renders each slide of the converted document
RenderConverted ==
    /\ op = "convertHtmlToJson"
    /\ op' = "generateSlideHTML"
    /\ fragments' =
          [i \in 1..Len(ReadDocument(jsonOutput).slides.a) |->
              generateSlideHTML(ReadDocument(jsonOutput).slides.a[i], stateVars)]
    /\ UNCHANGED <<template, stateVars, contentData, result, again,
                   baseAmount, halfUp, calc, dom, jsonOutput>>
    /\ UNCHANGED runVars
    /\ UNCHANGED renderVars
    /\ UNCHANGED validateVars
    /\ UNCHANGED batchVars

\* the validator checks the converted document
ValidateConverted ==
    /\ op = "convertHtmlToJson"
    /\ op' = "validateContentJSON"
    /\ file' = File(ReadDocument(jsonOutput))
    /\ errors' = validateContentJSON(file').errors
    /\ warned' = validateContentJSON(file').warnings
    /\ isValid' = validateContentJSON(file').isValid
    /\ exitCode' = IF isValid' THEN 0 ELSE 1
    /\ UNCHANGED <<template, stateVars, contentData, result, again,
                   baseAmount, halfUp, calc, fs, state, lChapter, pc, loads,
                   mappingContent, mapping, warnings, written,
                   dom, jsonOutput, fragments>>
    /\ UNCHANGED renderVars
    /\ UNCHANGED batchVars

NextConvert ==
    \/ ConvertHtmlToJson
    \/ RenderConverted
    \/ ValidateConverted

SpecConvert == InitConvert /\ [][NextConvert]_vars

----------------------------------------------------------------------------
(* processAllFiles, run by main of the converter script.  A file name is   *)
(* a sequence of atoms, the digits after "L-" being one atom; a source     *)
(* file holds a parsed deck or cannot be read; a file of the output        *)
(* directory holds the document that was serialized into it.               *)

\* a skip list of the first chapter only
skipExisting_FirstOnly == << <<"L-", "01">> >>

\* CONFIG.skipExisting
skipExisting == << <<"L-", "01">>, <<"L-", "03">> >>

\* the argument sets options.chapter
SetsChapter(arg) == arg # <<>> /\ (arg[1] = "--chapter=" \/ arg = <<"--test">>)

\* main: options.chapter after args.forEach, the last argument that sets
\* it last; arg.split('=')[1] is what follows "--chapter="
main(argv) ==
    LET setting == {i \in 1..Len(argv) : SetsChapter(argv[i])}
        last == CHOOSE i \in setting : \A h \in setting : h <= i
    IN  [chapter |->
            IF setting = {} THEN Undefined
            ELSE IF argv[last] = <<"--test">> THEN Str(<<"L-", "02">>)
            ELSE Str(ToUpperCase(Tail(argv[last])))]

\* the names a source file may have, as Array.prototype.sort orders them
\* (by code unit: "-" before "." before the digits before the letters)
SourceNames ==
    << <<"L-", "01", "-goals", ".html">>,
       <<"L-", "02", "-old", ".html">>,
       <<"L-", "02", ".html">>,
       <<"L-", "03", ".html">>,
       <<"L-", "03", ".txt">>,
       <<"L-", "12", ".html">>,
       <<"L-", "2", "-budget", ".html">>,
       <<"L-", "intro", ".html">>,
       <<"notes", ".html">> >>

\* fs.readdirSync(CONFIG.sourceDir).filter(...).sort()
ListHtmlFiles(dir) ==
    SelectSeq(SourceNames, LAMBDA f :
        /\ \E e \in dir : e.name = f
        /\ f[Len(f)] = ".html"
        /\ f[1] = "L-")

\* htmlFile.match(/^(L-\d+)/): match[1], nothing without a match
NameChapter(htmlFile) ==
    IF Len(htmlFile) >= 2 /\ htmlFile[1] = "L-" /\ htmlFile[2] \in Numerals
    THEN SubSeq(htmlFile, 1, 2)
    ELSE <<>>

\* a written file, and a directory standing at a path
Written(name, data) == [name |-> name, kind |-> "file", data |-> data]

Directory(name) == [name |-> name, kind |-> "directory", data |-> JsonTree(<<>>)]

\* fs.writeFileSync throws when a directory stands at the path
WriteThrows(out, name) == \E e \in out : e.name = name /\ e.kind = "directory"

\* fs.writeFileSync(outputPath, JSON.stringify(jsonData, null, 2), 'utf8')
writeFileSync(out, name, data) ==
    {e \in out : e.name # name} \cup {Written(name, data)}

\* the body of the loop with a caught error counted as processed
ProcessFile_ErrorsUncounted(htmlFile, options, src, out, jsonData) ==
    [outcome |-> IF NameChapter(htmlFile) = <<>> THEN "no match" ELSE "processed",
     out |-> out]

\* whether the loop reaches convertHtmlToJson for the file and the file is
\* read
Converts(htmlFile, options, src) ==
    /\ NameChapter(htmlFile) # <<>>
    /\ ~(Truthy(options.chapter) /\ options.chapter # Str(NameChapter(htmlFile)))
    /\ \A i \in 1..Len(skipExisting) : skipExisting[i] # NameChapter(htmlFile)
    /\ \E e \in src : e.name = htmlFile /\ e.html.ok

\* the body of the loop for one file: what it did, and the output
\* directory after it; jsonData is what convertHtmlToJson returned when
\* the file was read
ProcessFile(htmlFile, options, src, out, jsonData) ==
    LET id == NameChapter(htmlFile)
        source == CHOOSE e \in src : e.name = htmlFile
        outputName == id \o <<".json">>
    IN  IF id = <<>> THEN [outcome |-> "no match", out |-> out]
        ELSE IF Truthy(options.chapter) /\ options.chapter # Str(id)
             THEN [outcome |-> "other chapter", out |-> out]
        ELSE IF \E i \in 1..Len(skipExisting) : skipExisting[i] = id
             THEN [outcome |-> "skipped", out |-> out]
        ELSE IF ~source.html.ok \/ WriteThrows(out, outputName)
             THEN [outcome |-> "errors", out |-> out]
        ELSE [outcome |-> "processed",
              out |-> writeFileSync(out, outputName, jsonData)]

\* the counters with a skipped file left uncounted
Count_SkippedUncounted(c, outcome) ==
    CASE outcome = "processed" -> [c EXCEPT !.processed = @ + 1]
      [] outcome = "errors" -> [c EXCEPT !.errors = @ + 1]
      [] OTHER -> c

\* the counters after a file
Count(c, outcome) ==
    CASE outcome = "processed" -> [c EXCEPT !.processed = @ + 1]
      [] outcome = "skipped" -> [c EXCEPT !.skipped = @ + 1]
      [] outcome = "errors" -> [c EXCEPT !.errors = @ + 1]
      [] OTHER -> c

\* the most files a source directory holds
MaxFiles == 3

\* a deck with the given <title> and one title slide
TitledDeck(t) ==
    El("html", <<>>, <<>>, <<Leaf("title", <<>>, t), PlainTitleElement>>)

\* what the file of a name may hold
SourceContents(name) ==
    CASE name = <<"L-", "02", "-old", ".html">> ->
            {File(TitledDeck(<<"Income">>)), BadFile}
      [] name = <<"L-", "02", ".html">> ->
            {File(TitledDeck(<<"L-", "02", " Budget">>)), BadFile}
      [] name = <<"L-", "12", ".html">> ->
            {File(TitledDeck(<<"L-", "12">>)),
             File(TitledDeck(<<"L-", "3", " Income">>))}
      [] name = <<"L-", "2", "-budget", ".html">> ->
            {File(TitledDeck(<<"L-", "2", " Budget">>))}
      [] OTHER -> {File(TitledDeck(<<"L-", "01", " Goals">>))}

\* the source directories of at most n files
RECURSIVE SourceDirsOf(_, _)
SourceDirsOf(n, from) ==
    IF n = 0 \/ from > Len(SourceNames) THEN {{}}
    ELSE SourceDirsOf(n, from + 1)
         \cup {dir \cup {[name |-> SourceNames[from], html |-> h]} :
                 dir \in SourceDirsOf(n - 1, from + 1),
                 h \in SourceContents(SourceNames[from])}

SourceDirs == SourceDirsOf(MaxFiles, 1)

\* a hand-authored document of the output directory
HandAuthored(id) ==
    Written(id \o <<".json">>,
            JsonTree(<<Prop("metadata", JsonTree(<<Prop("lChapter", Str(id))>>)),
                       Prop("slides", JsonArray(<<>>))>>))

OutputDirs ==
    { {},
      {HandAuthored(<<"L-", "01">>), HandAuthored(<<"L-", "03">>)},
      {HandAuthored(<<"L-", "01">>), Directory(<<"L-", "12", ".json">>)} }

BatchArgs ==
    { <<>>, << <<"--test">> >>, << <<"--chapter=", "l-", "01">> >>,
      << <<"--chapter=", "L-", "12">> >>, << <<"--chapter=">> >>,
      << <<"--chapter=", "L-", "03">>, <<"--test">> >> }

InitBatch ==
    /\ op = "init"
    /\ template = Undefined
    /\ stateVars = <<>>
    /\ contentData = NoContent
    /\ result = Undefined
    /\ again = Undefined
    /\ baseAmount = DefaultBaseAmount
    /\ halfUp = TRUE
    /\ calc = NoCalc
    /\ NoRun
    /\ NoRender
    /\ NoValidate
    /\ NoConvert
    /\ args \in BatchArgs
    /\ sourceDir \in SourceDirs
    /\ outputDir \in OutputDirs
    /\ htmlFiles = <<>>
    /\ counts = NoCounts
    /\ walked = <<>>

\* processAllFiles up to its loop: the list is read, filtered and sorted
ListFiles ==
    /\ op = "init"
    /\ op' = "processAllFiles"
    /\ htmlFiles' = ListHtmlFiles(sourceDir)
    /\ counts' = NoCounts
    /\ walked' = <<>>
    /\ UNCHANGED <<template, stateVars, contentData, result, again,
                   baseAmount, halfUp, calc, args, sourceDir, outputDir>>
    /\ UNCHANGED runVars
    /\ UNCHANGED renderVars
    /\ UNCHANGED validateVars
    /\ UNCHANGED convertVars

\* one turn of a loop without try and catch: an error ends the batch
NextFile_AbortOnError ==
    /\ op = "processAllFiles"
    /\ Len(walked) < Len(htmlFiles)
    /\ LET htmlFile == htmlFiles[Len(walked) + 1]
           source == CHOOSE e \in sourceDir : e.name = htmlFile
       IN  /\ dom' = IF Converts(htmlFile, main(args), sourceDir)
                     THEN RootNode(source.html.data) ELSE dom
           /\ jsonOutput' = IF Converts(htmlFile, main(args), sourceDir)
                            THEN convertHtmlToJson(dom') ELSE jsonOutput
           /\ outputDir' = ProcessFile(htmlFile, main(args), sourceDir,
                                       outputDir, jsonOutput').out
           /\ walked' = Append(walked,
                  ProcessFile(htmlFile, main(args), sourceDir,
                              outputDir, jsonOutput').outcome)
           /\ counts' = Count(counts, walked'[Len(walked')])
           /\ op' = IF walked'[Len(walked')] = "errors" THEN "complete" ELSE op
    /\ UNCHANGED <<template, stateVars, contentData, result, again,
                   baseAmount, halfUp, calc, args, sourceDir, htmlFiles,
                   fragments>>
    /\ UNCHANGED runVars
    /\ UNCHANGED renderVars
    /\ UNCHANGED validateVars

\* one turn of the loop
NextFile ==
    /\ op = "processAllFiles"
    /\ Len(walked) < Len(htmlFiles)
    /\ LET htmlFile == htmlFiles[Len(walked) + 1]
           source == CHOOSE e \in sourceDir : e.name = htmlFile
       IN  /\ dom' = IF Converts(htmlFile, main(args), sourceDir)
                     THEN RootNode(source.html.data) ELSE dom
           /\ jsonOutput' = IF Converts(htmlFile, main(args), sourceDir)
                            THEN convertHtmlToJson(dom') ELSE jsonOutput
           /\ outputDir' = ProcessFile(htmlFile, main(args), sourceDir,
                                       outputDir, jsonOutput').out
           /\ walked' = Append(walked,
                  ProcessFile(htmlFile, main(args), sourceDir,
                              outputDir, jsonOutput').outcome)
           /\ counts' = Count(counts, walked'[Len(walked')])
    /\ UNCHANGED <<op, template, stateVars, contentData, result, again,
                   baseAmount, halfUp, calc, args, sourceDir, htmlFiles,
                   fragments>>
    /\ UNCHANGED runVars
    /\ UNCHANGED renderVars
    /\ UNCHANGED validateVars

\* the loop is over: the summary is printed
Complete ==
    /\ op = "processAllFiles"
    /\ Len(walked) = Len(htmlFiles)
    /\ op' = "complete"
    /\ UNCHANGED <<template, stateVars, contentData, result, again,
                   baseAmount, halfUp, calc>>
    /\ UNCHANGED runVars
    /\ UNCHANGED renderVars
    /\ UNCHANGED validateVars
    /\ UNCHANGED convertVars
    /\ UNCHANGED batchVars

NextBatch ==
    \/ ListFiles
    \/ NextFile
    \/ Complete

SpecBatch == InitBatch /\ [][NextBatch]_vars

----------------------------------------------------------------------------
(* Token-wise substitution: the text is read once from the left and each   *)
(* placeholder is replaced where it stands; what is inserted is never read *)
(* again.  The claims about interpolateVariables are stated against it.    *)

HasKey(vs, key) == \E i \in 1..Len(vs) : vs[i].k = key

IsCalculatedField(name) ==
    \E i \in 1..Len(CalculatedFieldNames) : CalculatedFieldNames[i] = name

HasMetadata(cd) == cd.t = "object" /\ cd.metadata.t = "object"

\* a placeholder starts at position i of s
TokenAt(s, i) ==
    /\ i + 2 <= Len(s)
    /\ s[i] = "{{"
    /\ s[i + 1] \notin {"{{", "}}"}
    /\ s[i + 2] = "}}"

\* The display form of a state variable, as the specification words it
DisplayForm(value) ==
    CASE value.t = "number" -> <<NumToString(value.n)>>
      [] value.t = "boolean" /\ value.b -> <<"Yes">>
      [] value.t = "boolean" /\ ~value.b -> <<"No">>
      [] value.t \in {"null", "undefined"} -> <<"N/A">>
      [] OTHER -> value.s

\* title, subtitle: the metadata placeholder has not been met yet
RECURSIVE TokenSubst(_, _, _, _, _)
TokenSubst(s, vs, cd, title, subtitle) ==
    IF s = <<>> THEN <<>>
    ELSE IF ~TokenAt(s, 1)
         THEN <<Head(s)>> \o TokenSubst(Tail(s), vs, cd, title, subtitle)
         ELSE LET name == s[2]
                  rest == SubSeq(s, 4, Len(s))
              IN  CASE HasKey(vs, name) ->
                         DisplayForm(Lookup(vs, name))
                             \o TokenSubst(rest, vs, cd, title, subtitle)
                    [] ~HasKey(vs, name) /\ IsCalculatedField(name) ->
                         <<CALCULATED_FIELDS(name, vs, DefaultBaseAmount)>>
                             \o TokenSubst(rest, vs, cd, title, subtitle)
                    [] ~HasKey(vs, name) /\ name = "CHAPTER_TITLE"
                           /\ HasMetadata(cd) /\ title ->
                         JsToString(OrElse(cd.metadata.title, Str(<<>>)))
                             \o TokenSubst(rest, vs, cd, FALSE, subtitle)
                    [] ~HasKey(vs, name) /\ name = "CHAPTER_SUBTITLE"
                           /\ HasMetadata(cd) /\ subtitle ->
                         JsToString(OrElse(cd.metadata.subtitle, Str(<<>>)))
                             \o TokenSubst(rest, vs, cd, title, FALSE)
                    [] OTHER ->
                         SubSeq(s, 1, 3) \o TokenSubst(rest, vs, cd, title, subtitle)

\* every "{{" of s opens a placeholder
WellFormed(s) == \A i \in 1..Len(s) : s[i] = "{{" => TokenAt(s, i)

\* no value of the set brings a brace pair into the text
PlainValues(vs) ==
    \A i \in 1..Len(vs) : \A j \in 1..Len(DisplayForm(vs[i].v)) :
        DisplayForm(vs[i].v)[j] \notin {"{{", "}}"}

\* a name some pass of interpolateVariables(_, vs, cd) looks for
KnownName(name, vs, cd) ==
    \/ HasKey(vs, name)
    \/ IsCalculatedField(name)
    \/ HasMetadata(cd) /\ name \in {"CHAPTER_TITLE", "CHAPTER_SUBTITLE"}

\* s holds no placeholder that interpolateVariables(_, vs, cd) would match
Resolved(s, vs, cd) ==
    \A i \in 1..Len(s) : TokenAt(s, i) => ~KnownName(s[i + 1], vs, cd)

\* number of positions of s where p stands
Occurrences(s, p) ==
    Cardinality({i \in 1..Len(s) :
                    i + Len(p) - 1 <= Len(s) /\ SubSeq(s, i, i + Len(p) - 1) = p})

Called == op \in {"interpolateVariables", "again"}

----------------------------------------------------------------------------
(* Claims about generateSlideDeck, checked under Spec *)

LoadOrder == <<"template", "content", "stateData", "mapping">>

\* the file a load reads is there and is read (and parsed) without error
Loadable(name) ==
    CASE name = "template" -> fs.template.there /\ fs.template.ok
      [] name = "content" -> fs.content.there /\ fs.content.ok
      [] name = "stateData" -> fs.stateData.there /\ fs.stateData.ok
      [] OTHER -> \E i \in 1..3 :
                    /\ fs.mapping[possibleNames(state)[i]].there
                    /\ fs.mapping[possibleNames(state)[i]].ok
                    /\ \A j \in 1..(i - 1) :
                          ~fs.mapping[possibleNames(state)[j]].there

HasRow(lines, id) ==
    \E i \in 1..Len(lines) :
        /\ Trim(lines[i]) # <<>>
        /\ Head(Trim(lines[i])) = "|"
        /\ Columns(lines[i]) # <<>>
        /\ Columns(lines[i])[1] = id

AllLoaded == loads = LoadOrder /\ \A i \in 1..4 : Loadable(LoadOrder[i])

Candidates ==
    << fs.mapping[<<"o", "k", "-simple-data.md">>],
       fs.mapping[<<"O", "k", "-simple-data.md">>],
       fs.mapping[<<"O", "K", "-simple-data.md">>] >>

\* the first candidate that exists, 0 when none of the three does
FirstCandidate ==
    IF \E i \in 1..3 : Candidates[i].there
    THEN CHOOSE i \in 1..3 :
            Candidates[i].there /\ \A j \in 1..(i - 1) : ~Candidates[j].there
    ELSE 0

\* loadChapterMapping was called and ended the process
MappingLoadFatal ==
    /\ Len(loads) = 4
    /\ pc = "exit"
    /\ exitCode = 1
    /\ mapping = NoMapping
    /\ written = {}

\* C15 as stated: loadChapterMapping returns the content of the first of
\* the candidates (lower-case, capitalized, upper-case name) that exists
\* and ends the process only when none of the three exists.
C15_FatalOnlyWhenNoneExists ==
    (Len(loads) = 4 /\ state = <<"o", "k">>) =>
        IF FirstCandidate # 0
        THEN /\ mappingContent = Candidates[FirstCandidate].data
             /\ ~MappingLoadFatal
        ELSE MappingLoadFatal

\* C15, amended: loadChapterMapping reads the first of the candidates
\* (lower-case, capitalized, upper-case name) that exists and returns its
\* content; it ends the process with status 1 when none of the three
\* exists and also when that first existing candidate cannot be read, in
\* which case the later candidates are not tried.
C15_FirstExistingCandidate ==
    (Len(loads) = 4 /\ state = <<"o", "k">>) =>
        IF FirstCandidate # 0 /\ Candidates[FirstCandidate].ok
        THEN /\ mappingContent = Candidates[FirstCandidate].data
             /\ ~MappingLoadFatal
        ELSE /\ MappingLoadFatal
             /\ mappingContent = <<>>

\* no lower-case file; the capitalized and the upper-case one differ
C15_Witness ==
    /\ pc = "parseChapterMapping"
    /\ state = <<"o", "k">>
    /\ ~Candidates[1].there
    /\ Candidates[2].there /\ Candidates[2].ok
    /\ Candidates[3].there /\ Candidates[3].ok
    /\ Candidates[3].data # Candidates[2].data
    /\ mappingContent = Candidates[2].data

----------------------------------------------------------------------------
(* Claims about validateContentJSON, checked under SpecValidate *)

Validated == op = "validateContentJSON"

\* the file was read and parsed
Parsed == file.there /\ file.ok

\* no hard error: the five required things are there
HardErrorFree(data) ==
    /\ data.metadata.t = "object"
    /\ Truthy(data.metadata.lChapter)
    /\ Truthy(data.metadata.title)
    /\ data.metadata.hasStateVariables # Undefined
    /\ data.slides.t = "array"

\* none of the checks throws: the document is not null, no slide is null,
\* and stateVariablesUsed can be iterated when hasStateVariables holds
ChecksRun(data) ==
    /\ data.t # "null"
    /\ \A i \in 1..Len(data.slides.a) : data.slides.a[i].t # "null"
    /\ ~ /\ data.metadata.t = "object"
         /\ Truthy(data.metadata.hasStateVariables)
         /\ data.metadata.stateVariablesUsed.t = "object"

\* C16 as stated: validateContentJSON returns true if and only if the
\* document has zero hard errors.
C16_ValidIffNoHardErrors ==
    (Validated /\ Parsed) => (isValid <=> HardErrorFree(file.data))

\* C16, amended: validateContentJSON returns true if and only if the file
\* is read and parsed, none of the checks throws, and the document has zero
\* hard errors; warnings do not enter into it, and main exits with 0 for
\* true and 1 for false.
C16_ValidIffChecksRunWithoutHardErrors ==
    Validated =>
        /\ isValid <=> (Parsed /\ ChecksRun(file.data) /\ HardErrorFree(file.data))
        /\ (Parsed /\ ChecksRun(file.data)) =>
              (errors = <<>> <=> HardErrorFree(file.data))
        /\ exitCode = (IF isValid THEN 0 ELSE 1)

\* a document that passes with warnings
C16_Witness ==
    /\ Validated
    /\ isValid
    /\ errors = <<>>
    /\ Len(warned) >= 2
    /\ exitCode = 0

\* the names N of the {{N}} placeholders of the serialized document
DocPlaceholders(data) ==
    LET text == JsonDocument(data)
    IN  { text[i + 1] : i \in { h \in 1..(Len(text) - 2) :
                                   /\ text[h] = "{{"
                                   /\ text[h + 2] = "}}"
                                   /\ text[h + 1] \in UpperCaseNames } }

\* the names declared in metadata.stateVariablesUsed
Declared(data) ==
    { data.metadata.stateVariablesUsed.a[i].s[1] :
        i \in 1..Len(data.metadata.stateVariablesUsed.a) }

\* every slide has a number, a type and a content
SlidesComplete(data) ==
    \A i \in 1..Len(data.slides.a) :
        /\ data.slides.a[i].t = "object"
        /\ Truthy(data.slides.a[i].number)
        /\ Truthy(data.slides.a[i].type)
        /\ data.slides.a[i].content.t = "object"

VariablesClean(data) ==
    \/ ~Truthy(data.metadata.hasStateVariables)
    \/ /\ data.metadata.stateVariablesUsed.t # "object"
       /\ DocPlaceholders(data) # {}
       /\ DocPlaceholders(data) \subseteq Declared(data) \cup CalculatedFieldSet

C17_WitnessNoTitle ==
    /\ Validated
    /\ Parsed
    /\ file.data.metadata.t = "object"
    /\ file.data.metadata.title = Undefined
    /\ ~isValid
    /\ errors = <<"Missing metadata.title">>

\* C18: there is a warning for every name declared in stateVariablesUsed
\* that is no {{NAME}} placeholder of the document, and for every {{NAME}}
\* placeholder that is not declared, except for Calculated Field names.
C18_DeclaredAndUsedCompared ==
    (Validated /\ Parsed /\ ChecksRun(file.data)
        /\ file.data.metadata.t = "object"
        /\ file.data.metadata.stateVariablesUsed.t # "object") =>
        /\ \A n \in Declared(file.data) \ DocPlaceholders(file.data) :
              \E i \in 1..Len(warned) : warned[i].name = n
        /\ \A n \in DocPlaceholders(file.data) \ Declared(file.data) :
              (n \notin CalculatedFieldSet) <=>
                  \E i \in 1..Len(warned) :
                      /\ warned[i].name = n
                      /\ warned[i].msg = "used but not declared in stateVariablesUsed"

----------------------------------------------------------------------------
(* Claims about parseChapterMapping, checked under SpecMapping *)

\* the first line that is a table row whose first cell is the id, 0 if none
MatchingLine(lines, id) ==
    IF HasRow(lines, id)
    THEN CHOOSE i \in 1..Len(lines) :
            /\ HasRow(<<lines[i]>>, id)
            /\ \A j \in 1..(i - 1) : ~HasRow(<<lines[j]>>, id)
    ELSE 0

\* C13: when the document has a table row whose first non-empty trimmed
\* cell is the chapter id, parseChapterMapping returns the second cell of
\* the first such row as stateChapter and its third cell as title, and
\* "Unknown Chapter" as title when the row has no third cell; the row
\* | L-03 | 1.3 | Income and Taxes | gives {"1.3", "Income and Taxes"}.
C13_MatchingRowCells ==
    (op = "parseChapterMapping" /\ HasRow(mappingContent, lChapter)) =>
        LET cells == Columns(mappingContent[MatchingLine(mappingContent, lChapter)])
        IN  /\ cells[1] = lChapter
            /\ mapping.stateChapter =
                  (IF Len(cells) >= 2 THEN Str(cells[2]) ELSE Undefined)
            /\ mapping.title =
                  (IF Len(cells) >= 3 THEN Str(cells[3])
                   ELSE Str(<<"Unknown Chapter">>))
            /\ warnings = 0
            /\ (mappingContent[MatchingLine(mappingContent, lChapter)]
                    = <<"|", " ", "L-", "03", " ", "|", " ", "1.3", " ", "|",
                        " ", "Income and Taxes", " ", "|">>) =>
                  /\ mapping.stateChapter = Str(<<"1.3">>)
                  /\ mapping.title = Str(<<"Income and Taxes">>)

C13_Witness ==
    /\ op = "parseChapterMapping"
    /\ lChapter = <<"L-", "03">>
    /\ Len(mappingContent) = 2
    /\ mappingContent[1] = Row(<<"L-", "01">>, <<"1.1">>, <<"Getting Started">>)
    /\ mappingContent[2] = Row(<<"L-", "03">>, <<"1.3">>, <<"Income and Taxes">>)
    /\ mapping.stateChapter = Str(<<"1.3">>)
    /\ mapping.title = Str(<<"Income and Taxes">>)

\* a matching row of two cells: the placeholder title
C13_WitnessNoTitle ==
    /\ op = "parseChapterMapping"
    /\ lChapter = <<"L-", "03">>
    /\ mappingContent = << <<"|", " ", "L-", "03", " ", "|", " ", "1.3", " ", "|">> >>
    /\ mapping.stateChapter = Str(<<"1.3">>)
    /\ mapping.title = Str(<<"Unknown Chapter">>)

\* the id without a leading "L-"
StripLeading(id) ==
    IF id # <<>> /\ Head(id) = "L-" THEN Tail(id) ELSE id

\* C14: when no table row matches the chapter id, parseChapterMapping
\* returns {stateChapter: the id with its leading "L-" stripped,
\* title: "Unknown Chapter"}; L-99 gives stateChapter "99".
C14_FallbackStripsLeadingPrefix ==
    (op = "parseChapterMapping" /\ ~HasRow(mappingContent, lChapter)) =>
        /\ mapping.stateChapter = Str(StripLeading(lChapter))
        /\ mapping.title = Str(<<"Unknown Chapter">>)

----------------------------------------------------------------------------
(* Claims about the layout renderers, checked under SpecRender *)

Rendered == op \in {"generateLayoutContent", "generateSlideHTML"}

\* the layout data the renderer is given: content.layoutData, or {}
DataOf(content) ==
    IF content.layoutData.t = "object" THEN content.layoutData ELSE EmptyData

\* the generic fragment: the data serialized inside a <pre> block
GenericFragment(data) ==
    <<"<div class=\"generic-content\">\n", "  <pre>">>
        \o JsonStringify(data) \o <<"</pre>\n", "</div>\n">>

\* C11: for a layout name outside the seven known ones, and for an absent
\* layout name alike, generateLayoutContent returns the generic fragment
\* holding the serialized layout data in a <pre> block.
C11_UnknownOrAbsentLayoutIsGeneric ==
    (Rendered /\ slide.content.layout \notin KnownLayouts) =>
        html = GenericFragment(DataOf(slide.content))

\* the places of h where an objective item starts
ItemPositions(h) ==
    SelectSeq([i \in 1..Len(h) |-> i],
              LAMBDA i : h[i] = "  <div class=\"objective-item\">\n")

\* C12: for the objectives-expanded layout the fragment is the container
\* <div class="objectives-expanded">; it has no objective item when the
\* list is absent or empty, and for a list of n entries it has exactly n
\* items, the k-th showing the k-th entry's number.
C12_ObjectiveItemsInOrder ==
    (Rendered /\ slide.content.layout = Str(<<"objectives-expanded">>)) =>
        LET objs == DataOf(slide.content).objectives.a
            at == ItemPositions(html)
        IN  /\ Len(html) >= 2
            /\ html[1] = "<div class=\"objectives-expanded\">\n"
            /\ html[Len(html)] = "</div>\n"
            /\ Len(at) = Len(objs)
            /\ objs = <<>> => Len(html) = 2
            /\ \A k \in 1..Len(at) :
                  /\ html[at[k] + 1] = "    <div class=\"objective-number\">"
                  /\ <<html[at[k] + 2]>> = JsToString(objs[k].number)

C12_Witness ==
    /\ op = "generateLayoutContent"
    /\ slide.content.layout = Str(<<"objectives-expanded">>)
    /\ Len(slide.content.layoutData.objectives.a) = 2
    /\ slide.content.layoutData.objectives.a[1].number = Num(200)
    /\ slide.content.layoutData.objectives.a[2].number = Num(100)
    /\ Len(ItemPositions(html)) = 2

\* the same layout with no list at all: the container alone
C12_WitnessAbsent ==
    /\ op = "generateLayoutContent"
    /\ slide.content.layout = Str(<<"objectives-expanded">>)
    /\ slide.content.layoutData.t = "object"
    /\ slide.content.layoutData.objectives.t = "undefined"
    /\ html = <<"<div class=\"objectives-expanded\">\n", "</div>\n">>

----------------------------------------------------------------------------
(* Claims about interpolateVariables, checked under SpecInterp *)

\* the template is null, undefined, empty or not a string
NotAText(x) == x.t # "string" \/ x.s = <<>>

\* C3 as stated: called with a null, undefined, empty or non-string template,
\* interpolateVariables returns the empty string.
C3_NonStringGivesEmpty ==
    (Called /\ NotAText(template)) => result = Str(<<>>)

\* C3 amended: a null, undefined, empty or otherwise falsy template (0, false)
\* gives the empty string; a truthy template that is not a string (a non-zero
\* number, true, an object) is returned as it is; no call fails.
C3_FalsyGivesEmpty ==
    (Called /\ NotAText(template)) =>
        /\ template \in {Null, Undefined, Str(<<>>), Num(0), Bool(FALSE)}
              => result = Str(<<>>)
        /\ template \notin {Null, Undefined, Str(<<>>), Num(0), Bool(FALSE)}
              => result = template

C3_Witness ==
    Called /\ template = Null /\ result = Str(<<>>)

\* C4: every occurrence of {{K}} in the template, K a key of the State
\* Variable Set, is replaced by the display form of K's value (number: its
\* string conversion, true: "Yes", false: "No", null: "N/A", string: itself).
\* Stated for templates whose "{{" all open a placeholder and for values
\* without brace pairs, where no substitution builds a new placeholder.
C4_DisplayForms ==
    (Called /\ template.t = "string" /\ WellFormed(template.s)
            /\ PlainValues(stateVars)) =>
        result = Str(TokenSubst(template.s, stateVars, contentData, TRUE, TRUE))

C4_Witness ==
    /\ Called
    /\ template = Str(Placeholder("A") \o Placeholder("B"))
    /\ stateVars = <<[k |-> "B", v |-> Num(-25)], [k |-> "A", v |-> Bool(FALSE)]>>
    /\ result = Str(<<"No", "-0.25">>)

\* C5: a placeholder brought in by a state variable's value is never
\* resolved: the result is the token-wise substitution of the template,
\* whatever the values hold.
C5_NeverReResolved ==
    (Called /\ template.t = "string" /\ WellFormed(template.s)) =>
        result = Str(TokenSubst(template.s, stateVars, contentData, TRUE, TRUE))

C7_Idempotent ==
    (op = "again" /\ (result.t = "string"
                         => Resolved(result.s, stateVars, contentData)))
        => again = result

C7_Witness ==
    /\ op = "again"
    /\ result.t = "string"
    /\ result # template
    /\ Resolved(result.s, stateVars, contentData)
    /\ again = result

\* C10: a calculated field is never shadowed by a state variable: every
\* {{CALCULATED_...}} placeholder of the template shows, in the output, the
\* value computed from the field's formula.
C10_CalculatedNeverShadowed ==
    (Called /\ template.t = "string" /\ WellFormed(template.s)) =>
        \A i \in 1..Len(CalculatedFieldNames) :
            Occurrences(result.s,
                <<CALCULATED_FIELDS(CalculatedFieldNames[i], stateVars,
                                    DefaultBaseAmount)>>)
              >= Occurrences(template.s, Placeholder(CalculatedFieldNames[i]))

----------------------------------------------------------------------------
(* Claims about the calculated fields, checked under SpecCalc *)

\* An amount of c cents written as currency
Money(c) ==
    "$" \o ToString(c \div 100) \o "." \o ToString((c % 100) \div 10)
        \o ToString(c % 10)

\* The cents a rendered field shows, read back from its text; x is the
\* amount it was rendered from, in units of 1/10000; -1 if it shows neither
\* of the two amounts next to x
Shown(text, x) ==
    IF \E c \in {x \div 100, x \div 100 + 1} : text = Money(c)
    THEN CHOOSE c \in {x \div 100, x \div 100 + 1} : text = Money(c)
    ELSE -1

\* The number a rate variable holds; used where it is a number
RateOf(key) == Rate(stateVars, key).n

NumericRates ==
    \A key \in {"INCOME_TAX_RATE", "LOCAL_INCOME_TAX", "SDI_RATE"} :
        ~Rate(stateVars, key).nan

\* base * rate / 100 is a whole number of cents for each of the three rates
WholeCents ==
    \A key \in {"INCOME_TAX_RATE", "LOCAL_INCOME_TAX", "SDI_RATE"} :
        (baseAmount * RateOf(key)) % 100 = 0

TotalIsSumOfParts ==
    LET stateTax == Shown(calc.state, baseAmount * RateOf("INCOME_TAX_RATE"))
        localTax == Shown(calc.local, baseAmount * RateOf("LOCAL_INCOME_TAX"))
        sdi == Shown(calc.sdi, baseAmount * RateOf("SDI_RATE"))
        total == Shown(calc.total,
                       baseAmount * (RateOf("INCOME_TAX_RATE")
                           + RateOf("LOCAL_INCOME_TAX") + RateOf("SDI_RATE")))
    IN  /\ stateTax >= 0 /\ localTax >= 0 /\ sdi >= 0 /\ total >= 0
        /\ total = stateTax + localTax + sdi

\* C8 as stated: for all rates and every base amount, the amount rendered by
\* CALCULATED_TOTAL_STATE_DEDUCTIONS is, to the cent, the sum of the amounts
\* rendered by the three individual fields.
C8_TotalEqualsSum ==
    (op = "CALCULATED_FIELDS" /\ NumericRates) => TotalIsSumOfParts

\* C8 amended: with numeric rates, the rendered total is the sum of the three
\* rendered amounts whenever each base * rate / 100 is a whole number of
\* cents; the total is rounded once, from base * (sum of the rates) / 100.
C8_TotalEqualsSumOfWholeCents ==
    (op = "CALCULATED_FIELDS" /\ NumericRates /\ WholeCents) => TotalIsSumOfParts

C8_Witness ==
    /\ op = "CALCULATED_FIELDS"
    /\ baseAmount = 4000
    /\ stateVars = RateVars(Str(<<"4.75">>), Num(1), Num(110))
    /\ WholeCents
    /\ calc = [state |-> "$190.00", local |-> "$0.40", sdi |-> "$44.00",
               total |-> "$234.40"]

\* C9: CALCULATED_STATE_TAX_MONTHLY renders base * INCOME_TAX_RATE / 100 as
\* "$" and the amount to the nearest cent with two decimals; a missing rate
\* counts as 0 and renders "$0.00"; the rate "4.75" at base 4000 renders
\* "$190.00".
C9_StateTaxMonthly ==
    op = "CALCULATED_FIELDS" =>
        LET rate == Lookup(stateVars, "INCOME_TAX_RATE")
            x == baseAmount * rate.n
        IN  /\ rate = Undefined => calc.state = "$0.00"
            /\ (rate = Str(<<"4.75">>) /\ baseAmount = 4000)
                  => calc.state = "$190.00"
            /\ rate.t = "number" =>
                  \E c \in {x \div 100, x \div 100 + 1} :
                      /\ 100 * c - x \in -50..50
                      /\ calc.state = Money(c)

C9_Witness ==
    /\ op = "CALCULATED_FIELDS"
    /\ Lookup(stateVars, "INCOME_TAX_RATE") = Str(<<"4.75">>)
    /\ baseAmount = 4000
    /\ calc.state = "$190.00"

----------------------------------------------------------------------------
(* Claims about the converter of legacy decks, checked under SpecConvert *)

Converted == jsonOutput # Undefined

\* the slide elements of the deck, in document order
SlideNodes == querySelectorAll(dom, ByClass("slide"))

\* the texts of a slide element: the text of each element that has text and
\* no child elements, white space normalized; text that holds a placeholder
\* or a character written as an entity is no plain text
LeafTexts(slideEl) ==
    LET leaves == SelectSeq(Descendants(slideEl), LAMBDA d :
                      /\ d.el.kids = <<>>
                      /\ cleanText(Str(d.el.text)).s # <<>>
                      /\ \A i \in 1..Len(d.el.text) :
                             d.el.text[i] \notin {"{{", "}}", "&"})
    IN  {cleanText(Str(leaves[i].el.text)).s : i \in 1..Len(leaves)}

\* the plain-text fields of source slide i: the texts of the slide element
\* that the converter read into slide i of the document
PlainTexts(i) ==
    {text \in LeafTexts(SlideNodes[i]) :
        Includes(Stringify(Get(jsonOutput, "slides").a[i]), text)}

\* C19: for a legacy deck with N slides of any of the five slide types,
\* converting it with convertHtmlToJson and rendering each resulting slide
\* with generateSlideHTML gives N slide fragments, and each fragment holds
\* every plain-text field of its source slide verbatim, white space
\* normalized.
C19_RoundTripKeepsPlainText ==
    (Converted /\ op = "generateSlideHTML") =>
        /\ Len(fragments) = Len(SlideNodes)
        /\ \A i \in 1..Len(SlideNodes) :
              \A text \in PlainTexts(i) : Includes(fragments[i], text)

\* C20: every content document convertHtmlToJson produces, also for a deck
\* without a title slide or without L-<digits> in <title>, has zero hard
\* errors under the checks of validateContentJSON.
C20_ConvertedHasNoHardErrors ==
    (Converted /\ op = "validateContentJSON") =>
        /\ MetadataErrors(file.data) \o SlidesErrors(file.data) = <<>>
        /\ errors = <<>>
        /\ isValid

\* the slides and the metadata of the converted document
ConvertedSlides == Get(jsonOutput, "slides").a

ConvertedMetadata == Get(jsonOutput, "metadata")

\* the parser a slide element goes to, by its class
ParserOf(node) ==
    IF HasClass(node, "slide-title") THEN "title"
    ELSE IF HasClass(node, "slide-hook") THEN "hook"
    ELSE IF HasClass(node, "slide-discussion") THEN "discussion"
    ELSE IF HasClass(node, "slide-closing") THEN "closing"
    ELSE "content"

\* C21: in every document convertHtmlToJson produces, the slide at position
\* k has number k whichever parser handled it, each slide has the type of
\* its parser, and metadata.totalSlides is the number of elements with
\* class slide.
C21_NumbersFollowDocumentOrder ==
    Converted =>
        /\ Len(ConvertedSlides) = Len(SlideNodes)
        /\ \A k \in 1..Len(SlideNodes) :
              /\ Get(ConvertedSlides[k], "number") = Num(100 * k)
              /\ Get(ConvertedSlides[k], "type") = Str(<<ParserOf(SlideNodes[k])>>)
        /\ Get(ConvertedMetadata, "totalSlides") = Num(100 * Len(SlideNodes))

\* a deck of MaxSlides slides handled by different parsers
C21_Witness ==
    /\ Converted
    /\ Len(ConvertedSlides) = MaxSlides
    /\ ParserOf(SlideNodes[1]) # ParserOf(SlideNodes[MaxSlides])
    /\ Get(ConvertedSlides[MaxSlides], "number") = Num(100 * MaxSlides)

\* the names stored in metadata.stateVariablesUsed, in order
UsedNames ==
    [i \in 1..Len(Get(ConvertedMetadata, "stateVariablesUsed").a) |->
        Get(ConvertedMetadata, "stateVariablesUsed").a[i].s[1]]

\* the names that stand between braces in the serialized text
TokenNames(str) ==
    {str[i + 1] : i \in {h \in 1..(Len(str) - 2) :
        str[h] = "{{" /\ str[h + 1] \in UpperCaseNames /\ str[h + 2] = "}}"}}

\* the names of the fixed list that occur in the serialized text, as a
\* whole name or inside a longer one
LiteralNames(str) ==
    LET atoms == {str[i] : i \in 1..Len(str)}
    IN  {STATE_VARIABLES[i] : i \in {h \in 1..Len(STATE_VARIABLES) :
            \/ STATE_VARIABLES[h] \in atoms
            \/ PartOf(STATE_VARIABLES[h]) \cap atoms # {}}}

\* the serialized document
Serialized == Stringify(jsonOutput)

\* C22: in every document convertHtmlToJson produces,
\* metadata.stateVariablesUsed is the union of the names found as {{NAME}}
\* tokens in the serialized document and the names of the fixed list that
\* occur in it, each once, and metadata.hasStateVariables is true exactly
\* when that set is not empty.
C22_StateVariablesUsedIsUnion ==
    Converted =>
        LET names == TokenNames(Serialized) \cup LiteralNames(Serialized)
            used == UsedNames
        IN  /\ {used[i] : i \in 1..Len(used)} = names
            /\ \A i, h \in 1..Len(used) : used[i] = used[h] => i = h
            /\ Get(ConvertedMetadata, "hasStateVariables") = Bool(names # {})

\* a name found both ways, a name only between braces and a name only
\* inside a longer one
C22_Witness ==
    /\ Converted
    /\ LET tokens == TokenNames(Serialized)
           literal == LiteralNames(Serialized)
       IN  /\ "MIN_WAGE" \in tokens \cap literal
           /\ "CHAPTER_TITLE" \in tokens \ literal
           /\ "MAJOR_CITY" \in literal \ tokens
    /\ Get(ConvertedMetadata, "hasStateVariables") = Bool(TRUE)

\* a deck without any name: the flag is false and the list empty
C22_WitnessNone ==
    /\ Converted
    /\ Len(SlideNodes) > 0
    /\ UsedNames = <<>>
    /\ Get(ConvertedMetadata, "hasStateVariables") = Bool(FALSE)

----------------------------------------------------------------------------
(* Claims about the batch loop of the converter, checked under SpecBatch *)

InBatch == op \in {"processAllFiles", "complete"}

\* the chapter id in the name of the file at position i of the list
IdAt(i) == IF htmlFiles[i][2] \in Numerals THEN <<"L-", htmlFiles[i][2]>> ELSE <<>>

\* the file at position i of the list, as the source directory holds it
SourceAt(i) == CHOOSE e \in sourceDir : e.name = htmlFiles[i]

\* the file at position i matches the L-<digits> pattern and the --chapter
\* filter, if one is given
MatchingAt(i) ==
    /\ IdAt(i) # <<>>
    /\ main(args).chapter \in {Undefined, Str(<<>>), Str(IdAt(i))}

SkipListed(id) == id \in {<<"L-", "01">>, <<"L-", "03">>}

\* converting or writing the file at position i fails
FailsAt(i) ==
    /\ MatchingAt(i)
    /\ ~SkipListed(IdAt(i))
    /\ \/ ~SourceAt(i).html.ok
       \/ Directory(IdAt(i) \o <<".json">>) \in outputDir

\* the positions walked so far
WalkedSoFar == 1..Len(walked)

\* the last position walked so far whose file gave the output of the id
LastFor(id) ==
    CHOOSE i \in WalkedSoFar :
        /\ IdAt(i) = id /\ MatchingAt(i) /\ ~FailsAt(i)
        /\ \A h \in WalkedSoFar :
              (IdAt(h) = id /\ MatchingAt(h) /\ ~FailsAt(h)) => h <= i

\* C23: in the batch loop a failure while converting or writing one file
\* is caught and counted as an error, and every later matching file of the
\* sorted list is still processed: the loop walks the whole list, and each
\* matching file outside the skip list that can be read and written is
\* counted as processed and its output stands in the output directory.
C23_FailureIsIsolated ==
    InBatch =>
        /\ \A i \in WalkedSoFar : FailsAt(i) => walked[i] = "errors"
        /\ counts.errors = Cardinality({i \in WalkedSoFar : FailsAt(i)})
        /\ op = "complete" => Len(walked) = Len(htmlFiles)
        /\ \A i \in WalkedSoFar :
              (MatchingAt(i) /\ ~SkipListed(IdAt(i)) /\ ~FailsAt(i)) =>
                  /\ walked[i] = "processed"
                  /\ Written(IdAt(i) \o <<".json">>,
                             convertHtmlToJson(RootNode(
                                 SourceAt(LastFor(IdAt(i))).html.data)))
                        \in outputDir

\* a file fails and a later file is processed and written
C23_Witness ==
    /\ op = "complete"
    /\ \E i, h \in WalkedSoFar :
          /\ i < h
          /\ FailsAt(i) /\ walked[i] = "errors"
          /\ walked[h] = "processed"
          /\ \E e \in outputDir :
                e.name = IdAt(h) \o <<".json">> /\ e.kind = "file"
    /\ counts.errors = 1

\* the files of the output directory at the paths of the skip list
SkipListOutputs(out) ==
    {e \in out : \E id \in {<<"L-", "01">>, <<"L-", "03">>} :
                    e.name = id \o <<".json">>}

\* C24: the converter never converts a file whose chapter id is in the
\* skip list (L-01, L-03) and never writes output for such an id, without
\* arguments and also when that chapter is asked for with --chapter; each
\* such file is counted as skipped.
C24_SkipListNeverConverted ==
    [][ /\ SkipListOutputs(outputDir') = SkipListOutputs(outputDir)
        /\ (/\ op = "processAllFiles"
            /\ Len(walked) < Len(htmlFiles)
            /\ MatchingAt(Len(walked) + 1)
            /\ SkipListed(IdAt(Len(walked) + 1))) =>
               /\ jsonOutput' = jsonOutput
               /\ outputDir' = outputDir
               /\ walked' = Append(walked, "skipped")
               /\ counts' = [counts EXCEPT !.skipped = @ + 1] ]_vars

\* L-01 is asked for with --chapter, its file is skipped and the
\* hand-authored document still stands
C24_Witness ==
    /\ op = "complete"
    /\ main(args).chapter = Str(<<"L-", "01">>)
    /\ walked = <<"skipped">>
    /\ counts.skipped = 1
    /\ jsonOutput = Undefined
    /\ HandAuthored(<<"L-", "01">>) \in outputDir

\* without arguments: a file of the skip list among files that are converted
C24_WitnessBatch ==
    /\ op = "complete"
    /\ args = <<>>
    /\ \E i, h \in WalkedSoFar :
          /\ SkipListed(IdAt(i)) /\ walked[i] = "skipped"
          /\ walked[h] = "processed"

\* C28: for every file the converter writes, the chapter id in the name of
\* the output file is the metadata.lChapter stored in that file, whatever
\* the name of the source file and the text of its <title>.
C28_OutputNameIsStoredChapter ==
    InBatch =>
        \A e \in outputDir :
            e.kind = "file" =>
                e.name = Get(Get(e.data, "metadata"), "lChapter").s \o <<".json">>

\* C29: at every point of the batch loop processed + skipped + errors is
\* the number of files walked so far that match the L-<digits> pattern and
\* the --chapter filter, each such file is counted in exactly one of the
\* three counters and no other file is counted; at the end all files of
\* the list have been walked.
C29_CountersPartitionMatchingFiles ==
    InBatch =>
        /\ counts.processed + counts.skipped + counts.errors
              = Cardinality({i \in WalkedSoFar : MatchingAt(i)})
        /\ \A i \in WalkedSoFar :
              MatchingAt(i) <=> walked[i] \in {"processed", "skipped", "errors"}
        /\ counts.processed = Cardinality({i \in WalkedSoFar : walked[i] = "processed"})
        /\ counts.skipped = Cardinality({i \in WalkedSoFar : walked[i] = "skipped"})
        /\ counts.errors = Cardinality({i \in WalkedSoFar : walked[i] = "errors"})
        /\ op = "complete" => Len(walked) = Len(htmlFiles)

\* a batch that ends with a file in each counter
C29_Witness ==
    /\ op = "complete"
    /\ counts = [processed |-> 1, skipped |-> 1, errors |-> 1]

\* a file of the list that matches no chapter id, and one that the filter
\* leaves out, are in no counter
C29_WitnessUncounted ==
    /\ op = "complete"
    /\ \E i, h \in WalkedSoFar : walked[i] = "no match" /\ walked[h] = "other chapter"
    /\ counts.processed + counts.skipped + counts.errors = Len(walked) - 2

----------------------------------------------------------------------------
(* Claims about the metadata placeholders, checked under SpecMeta, and     *)
(* about the order of the keys, checked under SpecInterp                   *)

\* s with the first occurrence of p replaced by the text v as it is
FirstReplaced(s, p, v) ==
    IF \E i \in 1..Len(s) : i + Len(p) - 1 <= Len(s) /\ SubSeq(s, i, i + Len(p) - 1) = p
    THEN LET at == CHOOSE i \in 1..Len(s) :
                      /\ i + Len(p) - 1 <= Len(s)
                      /\ SubSeq(s, i, i + Len(p) - 1) = p
                      /\ \A h \in 1..(i - 1) : SubSeq(s, h, h + Len(p) - 1) # p
         IN  SubSeq(s, 1, at - 1) \o v \o SubSeq(s, at + Len(p), Len(s))
    ELSE s

\* the text of a metadata field, empty when the field is absent
FieldText(field) == IF field.t = "string" THEN field.s ELSE <<>>

\* the template after the passes over the state variables
AfterStateVariables ==
    FirstReplaced(FirstReplaced(template.s, Placeholder("A"),
                                IF HasKey(stateVars, "A") THEN <<"s">>
                                ELSE Placeholder("A")),
                  Placeholder("A"),
                  IF HasKey(stateVars, "A") THEN <<"s">> ELSE Placeholder("A"))

\* C25: with a content document, interpolateVariables replaces the first
\* occurrence of {{CHAPTER_TITLE}} and of {{CHAPTER_SUBTITLE}} by the
\* metadata title and subtitle (the empty string when absent) and leaves
\* later occurrences in place; without a content document both tokens are
\* left untouched.
C25_FirstMetadataTokenReplaced ==
    (op = "interpolateVariables" /\ template.t = "string") =>
        /\ HasMetadata(contentData) =>
              result = Str(FirstReplaced(
                              FirstReplaced(AfterStateVariables,
                                            Placeholder("CHAPTER_TITLE"),
                                            FieldText(contentData.metadata.title)),
                              Placeholder("CHAPTER_SUBTITLE"),
                              FieldText(contentData.metadata.subtitle)))
        /\ contentData = NoContent => result = Str(AfterStateVariables)

\* the State Variable Sets that hold the entries of vs in any key order
Reordered(vs) ==
    {p \in VarSets : {p[i] : i \in 1..Len(p)} = {vs[i] : i \in 1..Len(vs)}}

\* C26: the result of interpolateVariables depends on the State Variable
\* Set as a mapping only: with the same key/value pairs in another key
\* order the output is the same.
C26_KeyOrderIndependent ==
    (op = "interpolateVariables" /\ template.t = "string") =>
        \A p \in Reordered(stateVars) :
            interpolateVariables(template, p, contentData) = result

----------------------------------------------------------------------------
(* A claim about the shapes of a mapping row, checked under SpecMapping *)

\* the table columns of a row: the trimmed cells between its bars, empty
\* ones kept
TableCells(row) ==
    LET parts == SplitBars(Trim(row), <<>>)
        inner == IF parts[Len(parts)] = <<>>
                 THEN SubSeq(parts, 2, Len(parts) - 1)
                 ELSE SubSeq(parts, 2, Len(parts))
    IN  [i \in 1..Len(inner) |-> Trim(inner[i])]

\* C27: whenever parseChapterMapping returns from a matching row,
\* stateChapter is a defined, non-empty string, the second table column of
\* that row, whatever the shape of the row; the output file is never named
\* chapter-undefined-slides.html and a title is never the chapter number.
C27_StateChapterFromSecondColumn ==
    (op = "parseChapterMapping" /\ mapping.found) =>
        LET cells == TableCells(mappingContent[MatchingLine(mappingContent, lChapter)])
        IN  /\ mapping.stateChapter.t = "string"
            /\ mapping.stateChapter.s # <<>>
            /\ Len(cells) >= 2
            /\ mapping.stateChapter = Str(cells[2])
            /\ OutputFileName(mapping) # <<"chapter-", "undefined", "-slides.html">>

----------------------------------------------------------------------------
(* A claim about the insertion of the slides, checked under Spec *)

\* C30: generateSlideDeck inserts the slide markup into the template as it
\* is: for slide markup S without "{{", also when it holds "$$", "$&",
\* "$`" or "$'", the written file is the template with S standing in place
\* of the first <!-- SLIDES_CONTENT --> marker, interpolated and with the
\* state chapter filled in.
C30_SlidesInsertedVerbatim ==
    \A w \in written :
        LET S == SlidesHTML(contentData, stateVars)
        IN  (\A i \in 1..Len(S) : S[i] # "{{") =>
                w.html = StringReplace(
                            JsToString(interpolateVariables(
                                Str(FirstReplaced(template.s,
                                        <<"<!-- SLIDES_CONTENT -->">>, S)),
                                stateVars, contentData)),
                            Placeholder("STATE_CHAPTER"),
                            JsToString(mapping.stateChapter))

====
